---------------------------- MODULE Spec2Model ----------------------------
(***************************************************************************)
(* A model of the tactic orchestration and state-diff engine of            *)
(* src/selenium/recon_engine.py (class ReconEngine).                       *)
(*                                                                         *)
(* Units.  Python floats are modelled by exact integers:                   *)
(*   change_percent   is kept in tenths of a percent (round(x, 1) * 10),   *)
(*   rate_per_second  is kept in hundredths        (round(x, 2) * 100),    *)
(*   timestamps of the DOM statistics are milliseconds (Date.now()),       *)
(*   pauses (time.sleep) are kept in tenths of a second.                   *)
(* Strings built with f-strings are modelled by tuples of their parts.     *)
(***************************************************************************)
EXTENDS Integers, Sequences, FiniteSets, TLC

VARIABLES
    \* ---- DOM change detection (ReconEngine._detect_dom_changes) ----
    _last_dom_stats,   \* self._last_dom_stats, or NoStats while the attribute is unset
    dom_changes,       \* the dict returned by the latest _detect_dom_changes call
    dom_prev,          \* history: what self._last_dom_stats was when that call started
    dom_calls,         \* history: number of _detect_dom_changes calls made so far
    \* ---- the tactic executor (_run_safe_tactics, _run_liberation_tactics) ----
    mode,              \* "safe" or "liberation": which executor is running
    pc,                \* where the executor is (see the actions)
    idx,               \* position of the current tactic in the catalog, 0 before the first
    results,           \* the local list 'results'
    levels_executed,   \* the local set 'levels_executed'
    before_state,      \* the local 'before_state'
    after_state,       \* the local 'after_state'
    result,            \* the local 'result': what the tactic's method returned
    exc,               \* the exception in flight, caught as 'e'
    screenshots,       \* report['artifacts']['screenshots'], by name
    sleeps,            \* the time.sleep calls made, in order
    \* ---- the session ----
    page,              \* the page the driver holds
    alive,             \* whether the driver's session still answers
    clock,             \* time.time(), advanced by every snapshot
    \* ---- checkpoints (ReconEngine._capture_checkpoint) ----
    dom_snapshots,     \* self.captured_data['dom_snapshots']
    metadata_timeline, \* self.captured_data['metadata_timeline']
    _last_element_state, \* self._last_element_state, or NoStats while unset
    \* ---- history ----
    trace,             \* per tactic: what its captures and its method did
    devs,              \* how many inputs so far were other than the nominal one
    cp_trace           \* per _capture_checkpoint call: the page and what its reads did

dom_vars == <<_last_dom_stats, dom_changes, dom_prev, dom_calls>>

exec_vars == <<mode, pc, idx, results, levels_executed, before_state, after_state,
               result, exc, screenshots, sleeps, page, alive, clock, trace, devs>>

cp_vars == <<dom_snapshots, metadata_timeline, _last_element_state, cp_trace>>

vars == <<dom_vars, exec_vars, cp_vars>>

-----------------------------------------------------------------------------
(* Bounds of the model *)

\* _detect_dom_changes calls in one behaviour
MaxDomCalls == 2

\* In one run of an executor, how many inputs (a capture, a method's outcome,
\* its effect on the page, a screenshot) may be other than the nominal one:
\* the capture succeeds, the method returns success, the page stays as it is,
\* the screenshot is saved.  The liberation catalog is three times as long
\* as the safe one and gets the smaller bound.
MaxSafeDeviations == 2
MaxLibDeviations == 1
MaxCheckpoints == 3
MaxCheckpointFaults == 1
MaxAnalyzed == 3
MaxRuns == 2

-----------------------------------------------------------------------------
(* Arithmetic helpers: Python's abs, and round() of an exact quotient *)

Abs(x) == IF x < 0 THEN -x ELSE x

\* round(n / d) for n >= 0, d > 0, ties to even (Python 3's round)
RoundHalfEven(n, d) ==
    LET q == n \div d
        r == n % d
    IN  IF 2 * r < d THEN q
        ELSE IF 2 * r > d THEN q + 1
        ELSE IF q % 2 = 0 THEN q ELSE q + 1

\* round(num / den, digits) scaled by 10^digits (scale = 10^digits), den > 0
RoundScaled(num, den, scale) ==
    IF num >= 0 THEN RoundHalfEven(num * scale, den)
    ELSE -RoundHalfEven((-num) * scale, den)

-----------------------------------------------------------------------------
(* ReconEngine._detect_dom_changes, recon_engine.py 2178-2321 *)

\* hasattr(self, '_last_dom_stats') is false
NoStats == [unset |-> TRUE]

\* no _detect_dom_changes call has returned yet
NoChanges == [uncalled |-> TRUE]

\* The keys of the statistics the page script returns, in the order the script
\* lists them (Python iterates the dict in that order).  The numeric keys are all
\* handled by the same loop body; two of them are modelled.
StatKeys == <<"total_elements", "body_length", "body_hash", "timestamp">>

\* isinstance(current_value, (int, float)): every statistic but the hash, which
\* the script returns as a hexadecimal string
IsNumericStat(key) == key # "body_hash"

\* Values the page script can report
ElementCounts == {0, 100, 115, 120, 150, 151}
BodyLengths == {0, 2001, 2402, 3002}
BodyHashes == {"1a2b", "3c4d"}
\* Milliseconds that may pass between two calls
TickChoices == {0, 1000}

\* What driver.execute_script returns to _detect_dom_changes at time ts.  The
\* dict is the driver's answer, which the engine does not validate: the loop
\* provides for a key the previous dict lacks (line 2260) and reads the
\* previous dict with defaults (lines 2253, 2304), so the answer may lack a
\* statistic.  total_elements is read unguarded at line 2304 and is always
\* present in an answer the call survives; the hash is the statistic that may
\* be missing here.
DomStats(ts) ==
    [total_elements : ElementCounts, body_length : BodyLengths,
     body_hash : BodyHashes, timestamp : {ts}]
    \cup [total_elements : ElementCounts, body_length : BodyLengths, timestamp : {ts}]

\* abs(change_pct) > limit, where change_pct = change / last_value * 100 if
\* last_value > 0 else 0
PctExceeds(change, last_value, limit) ==
    /\ last_value > 0
    /\ Abs(change) * 100 > limit * last_value

SignificanceMajorGE(change, last_value) ==
    IF last_value > 0 /\ Abs(change) * 100 >= 50 * last_value THEN "major"
    ELSE IF PctExceeds(change, last_value, 20) THEN "moderate"
    ELSE "minor"

\* the significance ladder of lines 2277-2284
Significance(change, last_value) ==
    IF PctExceeds(change, last_value, 50) THEN "major"
    ELSE IF PctExceeds(change, last_value, 20) THEN "moderate"
    ELSE "minor"

\* round(change_pct, 1), in tenths of a percent (lines 2266, 2273)
ChangePercent(change, last_value) ==
    IF last_value > 0 THEN RoundScaled(change * 100, last_value, 10) ELSE 0

\* round(change / time_diff, 2) if time_diff > 0 else 0, in hundredths;
\* time_diff = ms_diff / 1000 (lines 2253, 2274)
RatePerSecond(change, ms_diff) ==
    IF ms_diff > 0 THEN RoundScaled(change * 1000, ms_diff, 100) ELSE 0

ChangeOfReversed(last_value, current_value) == last_value - current_value

\* change = current_value - last_value (line 2265)
ChangeOf(last_value, current_value) == current_value - last_value

\* the change_info dict of a numeric statistic (lines 2268-2286)
NumericChangeInfo(key, last_value, current_value, ms_diff) ==
    LET change == ChangeOf(last_value, current_value)
    IN  [type |-> key,
         previous |-> last_value,
         current |-> current_value,
         change |-> change,
         change_percent |-> ChangePercent(change, last_value),
         rate_per_second |-> RatePerSecond(change, ms_diff),
         significance |-> Significance(change, last_value)]

ModifiedInfoWithPercent(key, last_value, current_value) ==
    [type |-> key, changed |-> TRUE, previous |-> last_value, current |-> current_value,
     change_percent |-> 0]

\* the entry of a non-numeric statistic (lines 2295-2300)
ModifiedInfo(key, last_value, current_value) ==
    [type |-> key, changed |-> TRUE, previous |-> last_value, current |-> current_value]

\* dict assignment d[key] = value
Put(d, key, value) ==
    [x \in (DOMAIN d) \cup {key} |-> IF x = key THEN value ELSE d[x]]

\* one human-readable line of changes['summary'] for a numeric statistic
\* (lines 2288-2292): change is never 0 here, the values differ
NumericSummaryLine(info) ==
    IF info.change > 0 THEN <<"Added", info.change, info.type>>
    ELSE <<"Removed", Abs(info.change), info.type>>

SkipsKeyNever(key) == FALSE

\* 'if key == "timestamp": continue' (lines 2257-2258)
SkipsKey(key) == key = "timestamp"

SetsSignificantOnModerateToo(significance) == significance \in {"major", "moderate"}

\* the branch of the significance ladder that sets
\* changes['significant_changes'] = True (lines 2278-2280)
SetsSignificant(significance) == significance = "major"

\* One pass of the loop body (lines 2257-2301) for one key of current_stats
AnalyzeMetric(changes, key, last_stats, current_stats, ms_diff) ==
    IF key \notin DOMAIN current_stats THEN changes
    ELSE IF SkipsKey(key) THEN changes
    ELSE IF key \notin DOMAIN last_stats THEN changes
    ELSE IF current_stats[key] = last_stats[key] THEN changes
    ELSE IF IsNumericStat(key)
    THEN LET info == NumericChangeInfo(key, last_stats[key], current_stats[key], ms_diff)
         IN  [changes EXCEPT
                 !.significant_changes =
                     IF SetsSignificant(info.significance) THEN TRUE ELSE @,
                 !.details = Put(@, key, info),
                 !.summary = Append(@, NumericSummaryLine(info))]
    ELSE [changes EXCEPT
             !.details = Put(@, key, ModifiedInfo(key, last_stats[key], current_stats[key])),
             !.summary = Append(@, <<key, "modified">>)]

\* The loop over current_stats.items(), from the i-th key on
RECURSIVE AnalyzeFrom(_, _, _, _, _)
AnalyzeFrom(changes, i, last_stats, current_stats, ms_diff) ==
    IF i > Len(StatKeys) THEN changes
    ELSE AnalyzeFrom(AnalyzeMetric(changes, StatKeys[i], last_stats, current_stats, ms_diff),
                     i + 1, last_stats, current_stats, ms_diff)

\* lines 2304-2305 (of the three statistics the performance analysis reads,
\* total_elements is modelled): total_elements > last total_elements * 1.5
PerformanceImpact(last_stats, current_stats) ==
    IF 2 * current_stats.total_elements >
       3 * (IF "total_elements" \in DOMAIN last_stats THEN last_stats.total_elements ELSE 0)
    THEN {"dom_growth"} ELSE {}

\* the changes dict as initialised (lines 2180-2185)
EmptyChanges ==
    [summary |-> << >>,
     details |-> << >>,
     performance_impact |-> {},
     significant_changes |-> FALSE]

\* the dict a call returns when the page script answered current_stats
\* (lines 2251-2320)
DomChangesOf(last_stats, current_stats) ==
    IF last_stats = NoStats
    THEN [EmptyChanges EXCEPT !.summary = << <<"Initial DOM capture">> >>]
    ELSE LET ms_diff == current_stats.timestamp -
                        (IF "timestamp" \in DOMAIN last_stats
                         THEN last_stats.timestamp ELSE 0)
             analysed == AnalyzeFrom(EmptyChanges, 1, last_stats, current_stats, ms_diff)
         IN  [analysed EXCEPT
                 !.performance_impact = PerformanceImpact(last_stats, current_stats)]

\* the dict a call returns when the page script raised (lines 2323-2325)
DomChangesError(msg) ==
    [summary |-> << >>,
     details |-> << >>,
     performance_impact |-> {},
     significant_changes |-> FALSE,
     error |-> msg]

\* Timestamp the script may report on the next call
NextTimestamps ==
    IF _last_dom_stats = NoStats THEN {0}
    ELSE {_last_dom_stats.timestamp + t : t \in TickChoices}

\* A call of _detect_dom_changes in which the page script returns current_stats
DetectDomChanges ==
    /\ dom_calls < MaxDomCalls
    /\ \E ts \in NextTimestamps : \E current_stats \in DomStats(ts) :
          /\ dom_changes' = DomChangesOf(_last_dom_stats, current_stats)
          /\ _last_dom_stats' = current_stats
    /\ dom_prev' = _last_dom_stats
    /\ dom_calls' = dom_calls + 1

\* A call of _detect_dom_changes in which the page script raises
DetectDomChangesFails ==
    /\ dom_calls < MaxDomCalls
    /\ dom_changes' = DomChangesError("script error")
    /\ dom_prev' = _last_dom_stats
    /\ dom_calls' = dom_calls + 1
    /\ UNCHANGED _last_dom_stats

\* The checkpoint state after __init__ (lines 26-31): empty lists, no
\* _last_element_state attribute
CpInit ==
    /\ dom_snapshots = << >>
    /\ metadata_timeline = << >>
    /\ _last_element_state = NoStats
    /\ cp_trace = << >>

DomInit ==
    /\ _last_dom_stats = NoStats
    /\ dom_changes = NoChanges
    /\ dom_prev = NoStats
    /\ dom_calls = 0

-----------------------------------------------------------------------------
(* The tactic catalogs, recon_engine.py 172-203 and 288-414.  A tactic's     *)
(* 'method' is a call into the toolkit, which is outside the engine: what it *)
(* returns or raises is an input of the model (ProbeOutcomes below).  The    *)
(* free-text 'description' of a tactic is copied to its result unread and is *)
(* left out.                                                                 *)

\* safe_tactics (lines 172-203)
safe_tactics ==
    << [name |-> "remove_overlays"],
       [name |-> "expand_content"],
       [name |-> "extract_hidden_data"],
       [name |-> "detect_ajax"],
       [name |-> "disable_lazy_loading"],
       [name |-> "extract_shadow_dom"] >>

\* liberation_sequence (lines 288-414)
liberation_sequence ==
    << [name |-> "remove_overlays", level |-> 1],
       [name |-> "expand_content", level |-> 1],
       [name |-> "remove_sticky", level |-> 1],
       [name |-> "reveal_hidden", level |-> 1],
       [name |-> "disable_lazy_loading", level |-> 1],
       [name |-> "bypass_right_click", level |-> 2],
       [name |-> "bypass_paywall", level |-> 2],
       [name |-> "manipulate_cookies", level |-> 3],
       [name |-> "override_js_checks", level |-> 3],
       [name |-> "spoof_referrer", level |-> 3],
       [name |-> "extract_hidden_data", level |-> 4],
       [name |-> "extract_shadow_dom", level |-> 4],
       [name |-> "extract_storage", level |-> 4],
       [name |-> "extract_canvas", level |-> 4],
       [name |-> "detect_ajax", level |-> 5],
       [name |-> "intercept_downloads", level |-> 5],
       [name |-> "humanize_browser", level |-> 6],
       [name |-> "probe_endpoints", level |-> 6],
       [name |-> "bypass_cloudflare", level |-> 6] >>

-----------------------------------------------------------------------------
(* The session: the page the driver holds, as far as the engine reads it *)

\* dict.get(key, default)
Get(d, key, default) == IF key \in DOMAIN d THEN d[key] ELSE default

\* Python's None where a string is expected
None == "None"

\* A page with a fixed overlay over an article
PageBlocked ==
    [url |-> "https://site/article", title |-> "Article",
     element_count |-> 100, body_length |-> 2001, cookies |-> 1,
     local_storage_items |-> 0, visible_elements |-> 90,
     no_fixed_overlays |-> FALSE, no_blur |-> TRUE,
     new_buttons |-> 2, new_links |-> 5]

\* The same article with the overlay gone and its collapsed parts expanded
PageOpen ==
    [url |-> "https://site/article", title |-> "Article",
     element_count |-> 115, body_length |-> 2402, cookies |-> 2,
     local_storage_items |-> 1, visible_elements |-> 110,
     no_fixed_overlays |-> TRUE, no_blur |-> TRUE,
     new_buttons |-> 2, new_links |-> 5]

\* Another address, reached by a redirect
PageLogin ==
    [url |-> "https://site/login", title |-> "Login",
     element_count |-> 12, body_length |-> 40, cookies |-> 1,
     local_storage_items |-> 0, visible_elements |-> 12,
     no_fixed_overlays |-> TRUE, no_blur |-> TRUE,
     new_buttons |-> 1, new_links |-> 0]

\* A page with no text, no link and no button
PageBlank ==
    [url |-> "https://site/article", title |-> "",
     element_count |-> 3, body_length |-> 0, cookies |-> 0,
     local_storage_items |-> 0, visible_elements |-> 3,
     no_fixed_overlays |-> TRUE, no_blur |-> TRUE,
     new_buttons |-> 0, new_links |-> 0]

Pages == {PageBlocked, PageOpen, PageLogin, PageBlank}

-----------------------------------------------------------------------------
(* ReconEngine._capture_state_snapshot, recon_engine.py 793-810 *)

\* The metrics a snapshot reads from the driver, one read each (lines 797-802)
SnapshotMetrics ==
    {"url", "title", "element_count", "body_length", "cookies", "local_storage_items"}

\* ok: every driver read succeeded.  Otherwise one read raised: it is the
\* first that fails, the reads being inside one try block, and the except
\* branch returns its own dict (lines 805-810)
_capture_state_snapshot(pg, ok, now) ==
    IF ok
    THEN [url |-> pg.url,
          title |-> pg.title,
          element_count |-> pg.element_count,
          body_length |-> pg.body_length,
          cookies |-> pg.cookies,
          local_storage_items |-> pg.local_storage_items,
          timestamp |-> now]
    ELSE [timestamp |-> now, error |-> "Message: stale element reference"]

-----------------------------------------------------------------------------
(* ReconEngine._calculate_impact, recon_engine.py 3432-3485 *)

\* An unrounded percentage num / den, den > 0
Pct(num, den) == [num |-> num, den |-> den]
PctGT(p, limit) == p.num > limit * p.den

\* lines 3445-3449
content_increase_pct(before, after) ==
    IF Get(before, "body_length", 0) > 0
    THEN Pct((Get(after, "body_length", 0) - Get(before, "body_length", 0)) * 100,
             Get(before, "body_length", 0))
    ELSE Pct(0, 1)

\* lines 3451-3462
features_unlocked(before, after) ==
    (IF Get(after, "downloadable_content", 0) > Get(before, "downloadable_content", 0)
     THEN <<"additional_downloads">> ELSE << >>)
    \o (IF Get(after, "interactive_elements", 0) > Get(before, "interactive_elements", 0)
        THEN <<"new_interactions">> ELSE << >>)
    \o (IF Get(before, "has_overlays", TRUE) /\ ~Get(after, "has_overlays", FALSE)
        THEN <<"unobstructed_view">> ELSE << >>)

\* the impact dict without its rating (lines 3436-3462)
BasicImpact(before, after) ==
    [url_changed |-> Get(before, "url", "") # Get(after, "url", ""),
     elements_added |-> Get(after, "element_count", 0) - Get(before, "element_count", 0),
     text_added |-> Get(after, "body_length", 0) - Get(before, "body_length", 0),
     cookies_modified |-> Get(after, "cookies", 0) # Get(before, "cookies", 0),
     storage_modified |->
         Get(after, "local_storage_items", 0) # Get(before, "local_storage_items", 0),
     content_increase_pct |-> content_increase_pct(before, after),
     features_unlocked |-> features_unlocked(before, after)]

\* significant_changes of lines 3465-3471
ImpactIsSignificant(impact) ==
    \/ impact.url_changed
    \/ Abs(impact.elements_added) > 10
    \/ Abs(impact.text_added) > 100
    \/ Len(impact.features_unlocked) > 0
    \/ PctGT(impact.content_increase_pct, 20)

EffectivenessMediumOnlyIfSignificant(impact) ==
    IF ImpactIsSignificant(impact) /\ Len(impact.features_unlocked) > 0 THEN "high"
    ELSE IF ImpactIsSignificant(impact) THEN "medium"
    ELSE "low"

\* lines 3474-3479
Effectiveness(impact) ==
    IF ImpactIsSignificant(impact) /\ Len(impact.features_unlocked) > 0 THEN "high"
    ELSE IF ImpactIsSignificant(impact) \/ PctGT(impact.content_increase_pct, 10)
    THEN "medium"
    ELSE "low"

\* _calculate_impact(before, after) with no context
_calculate_impact(before, after) ==
    LET impact == BasicImpact(before, after)
    IN  [url_changed |-> impact.url_changed,
         elements_added |-> impact.elements_added,
         text_added |-> impact.text_added,
         cookies_modified |-> impact.cookies_modified,
         storage_modified |-> impact.storage_modified,
         content_increase_pct |-> impact.content_increase_pct,
         features_unlocked |-> impact.features_unlocked,
         effectiveness |-> Effectiveness(impact)]

-----------------------------------------------------------------------------
(* ReconEngine._detect_state_changes, recon_engine.py 1981-2022 *)

_detect_state_changes(before, after) ==
    LET elem_diff == Get(after, "element_count", 0) - Get(before, "element_count", 0)
        text_diff == Get(after, "body_length", 0) - Get(before, "body_length", 0)
        cookie_diff == Get(after, "cookies", 0) - Get(before, "cookies", 0)
        storage_before == Get(before, "local_storage_items", 0)
        storage_after == Get(after, "local_storage_items", 0)
    IN  (IF Get(before, "url", None) # Get(after, "url", None)
         THEN << <<"URL changed from", Get(before, "url", None), "to",
                   Get(after, "url", None)>> >>
         ELSE << >>)
        \o (IF Abs(elem_diff) > 5
            THEN IF elem_diff > 0 THEN << <<"Added", elem_diff, "elements">> >>
                 ELSE << <<"Removed", Abs(elem_diff), "elements">> >>
            ELSE << >>)
        \o (IF Abs(text_diff) > 100
            THEN IF text_diff > 0 THEN << <<"Added ~", text_diff, "characters of text">> >>
                 ELSE << <<"Removed ~", Abs(text_diff), "characters of text">> >>
            ELSE << >>)
        \o (IF cookie_diff > 0 THEN << <<cookie_diff, "new cookies set">> >>
            ELSE IF cookie_diff < 0 THEN << <<Abs(cookie_diff), "cookies removed">> >>
            ELSE << >>)
        \o (IF storage_before # storage_after
            THEN << <<"LocalStorage changed from", storage_before, "to", storage_after,
                      "items">> >>
            ELSE << >>)
        \o (IF Get(before, "title", None) # Get(after, "title", None)
            THEN << <<"Page title changed to:", Get(after, "title", None)>> >>
            ELSE << >>)

-----------------------------------------------------------------------------
(* ReconEngine._measure_tactic_impact, recon_engine.py 3063-3201 *)

\* How the driver reads of one measurement go
MeasureOutcomes == {"ok", "raises", "raises_and_fallback_raises"}

\* the impact dict as initialised (lines 3065-3076)
InitialMeasuredImpact ==
    [success |-> TRUE,
     elements_changed |-> 0,
     url_changed |-> FALSE,
     new_element_count |-> 0,
     content_changes |-> << >>,
     visibility_changes |-> << >>,
     significant_change |-> FALSE,
     error |-> None]

\* content_changes (lines 3090-3100); the before_state of the safe executor holds
\* no body_length, so the default 0 is what the code reads there
ContentChanges(before, pg) ==
    LET before_text_length == Get(before, "body_length", 0)
        current_text_length == pg.body_length
        Max(a, b) == IF a > b THEN a ELSE b
    IN  [text_length_before |-> before_text_length,
         text_length_after |-> current_text_length,
         text_added |-> Max(0, current_text_length - before_text_length),
         text_removed |-> Max(0, before_text_length - current_text_length),
         percent_change |-> Pct(Abs(current_text_length - before_text_length) * 100,
                                Max(before_text_length, 1))]

\* visibility_changes (lines 3113-3122), the two counts the verdict reads
VisibilityChanges(before, pg) ==
    LET before_visible == Get(before, "visible_elements", 0)
        current_visible == pg.visible_elements
        Max(a, b) == IF a > b THEN a ELSE b
    IN  [elements_revealed |-> Max(0, current_visible - before_visible),
         elements_hidden |-> Max(0, before_visible - current_visible)]

\* liberation_check (lines 3125-3143), the indicators the verdict reads
LiberationCheck(pg) ==
    [no_fixed_overlays |-> pg.no_fixed_overlays,
     no_blur |-> pg.no_blur,
     new_buttons |-> pg.new_buttons,
     new_links |-> pg.new_links]

\* significant_factors (lines 3160-3168)
SignificantFactors(impact, before) ==
    << impact.elements_changed > 10,
       PctGT(impact.content_changes.percent_change, 10),
       impact.visibility_changes.elements_revealed > 5,
       impact.url_changed,
       impact.liberation_indicators.no_fixed_overlays
           /\ ~Get(before, "no_fixed_overlays", TRUE),
       impact.liberation_indicators.no_blur /\ ~Get(before, "no_blur", TRUE),
       impact.liberation_indicators.new_buttons > 0
           \/ impact.liberation_indicators.new_links > 0 >>

AllOf(factors) == \A i \in 1..Len(factors) : factors[i]

\* any(significant_factors)
AnyOf(factors) == \E i \in 1..Len(factors) : factors[i]

\* The measurement when every driver read succeeds (lines 3078-3170).  The
\* performance_impact and summary entries are not read by the engine and are
\* left out.
MeasuredImpactOk(before, pg) ==
    LET measured ==
            [success |-> TRUE,
             elements_changed |-> Abs(pg.element_count - Get(before, "element_count", 0)),
             url_changed |-> pg.url # Get(before, "url", ""),
             new_element_count |-> pg.element_count,
             content_changes |-> ContentChanges(before, pg),
             visibility_changes |-> VisibilityChanges(before, pg),
             liberation_indicators |-> LiberationCheck(pg),
             error |-> None]
    IN  measured @@
            [significant_change |-> AnyOf(SignificantFactors(measured, before))]

\* The measurement when the first driver read of the try block raises: the
\* except branch (lines 3187-3199) records the error and tries the basic reads
\* again
MeasuredImpactFailed(before, pg, fallback_ok) ==
    LET failed == [InitialMeasuredImpact EXCEPT
                      !.success = FALSE,
                      !.error = "Message: stale element reference"]
    IN  IF fallback_ok
        THEN [failed EXCEPT
                 !.new_element_count = pg.element_count,
                 !.elements_changed =
                     Abs(pg.element_count - Get(before, "element_count", 0)),
                 !.url_changed = pg.url # Get(before, "url", "")]
        ELSE failed

_measure_tactic_impact(before, pg, outcome) ==
    IF outcome = "ok" THEN MeasuredImpactOk(before, pg)
    ELSE MeasuredImpactFailed(before, pg, outcome = "raises")

-----------------------------------------------------------------------------
(* The tactic executors: ReconEngine._run_safe_tactics (166-280) and         *)
(* ReconEngine._run_liberation_tactics (282-521).                            *)
(* Of a result dict, 'description', 'executed_at', 'execution_time' and      *)
(* 'data' are left out: they are copied or clocked, and nothing reads them.  *)

Catalog == IF mode = "safe" THEN safe_tactics ELSE liberation_sequence

\* What calling tactic['method']() can do while the session answers
ProbeOutcomes ==
    {"ret_true", "ret_false", "ret_empty", "raise_msg", "raise_nomsg", "session_lost"}

\* The dict a method returns
ProbeReturn(outcome) ==
    IF outcome = "ret_true" THEN [success |-> TRUE, details |-> "done"]
    ELSE IF outcome = "ret_false"
    THEN [success |-> FALSE, details |-> "", error |-> "not applicable"]
    ELSE << >>

\* The exception a method raises; Python's str(e) of an exception raised
\* without arguments is the empty string
ProbeException(outcome) ==
    IF outcome = "raise_msg"
    THEN [type |-> "WebDriverException", msg |-> "Message: no such element"]
    ELSE IF outcome = "raise_nomsg"
    THEN [type |-> "TimeoutError", msg |-> ""]
    ELSE [type |-> "InvalidSessionIdException", msg |-> "Message: invalid session id"]

ProbeRaises(outcome) == outcome \in {"raise_msg", "raise_nomsg", "session_lost"}

\* A driver read that fails
DriverException ==
    IF alive
    THEN [type |-> "WebDriverException", msg |-> "Message: stale element reference"]
    ELSE [type |-> "InvalidSessionIdException", msg |-> "Message: invalid session id"]

\* enhanced_result['impact']['significant_change'] on a dict without that key
KeyErrorOf(key) == [type |-> "KeyError", msg |-> <<"'", key, "'">>]

\* The classes of the exceptions above; all derive from Exception
ExceptionClasses ==
    {"WebDriverException", "InvalidSessionIdException", "TimeoutError", "KeyError"}

CatchesDriverErrorsOnly(e) ==
    e.type \in {"WebDriverException", "InvalidSessionIdException"}

\* 'except Exception as e' (lines 264 and 493)
Catches(e) == e.type \in ExceptionClasses

OnRaiseLeavesLoop(e) == IF Catches(e) THEN "summary" ELSE "raised"

\* Where control goes when e is raised inside the try block of the loop
OnRaise(e) == IF Catches(e) THEN "except" ELSE "raised"

\* The non-nominal inputs the running executor may draw
MaxDeviations == IF mode = "safe" THEN MaxSafeDeviations ELSE MaxLibDeviations

\* Whether one more non-nominal input may be drawn
MayDeviate == devs < MaxDeviations

FailureResultWithoutLevel(tactic, e) ==
    [tactic |-> tactic.name,
     success |-> FALSE,
     error |-> e.msg,
     details |-> <<"Exception:", e.type>>]

\* the dict appended by the except branch (lines 266-274, 495-504)
FailureResult(tactic, e) ==
    IF "level" \in DOMAIN tactic
    THEN [tactic |-> tactic.name,
          level |-> tactic.level,
          success |-> FALSE,
          error |-> e.msg,
          details |-> <<"Exception:", e.type>>]
    ELSE [tactic |-> tactic.name,
          success |-> FALSE,
          error |-> e.msg,
          details |-> <<"Exception:", e.type>>]

\* enhanced_result of the liberation executor (lines 444-456)
LiberationResult(tactic, res, before, after) ==
    [tactic |-> tactic.name,
     level |-> tactic.level,
     success |-> Get(res, "success", FALSE),
     details |-> Get(res, "details", ""),
     error |-> Get(res, "error", None),
     impact |-> _calculate_impact(before, after),
     state_changes |-> _detect_state_changes(before, after)]

\* enhanced_result of the safe executor (lines 223-233)
SafeResult(tactic, res, before, pg, measure) ==
    [tactic |-> tactic.name,
     success |-> Get(res, "success", FALSE),
     details |-> Get(res, "details", ""),
     error |-> Get(res, "error", None),
     impact |-> _measure_tactic_impact(before, pg, measure)]

\* the pause after a recorded tactic, in tenths of a second (lines 486-491)
AdaptivePause(level) ==
    IF level <= 2 THEN 5 ELSE IF level <= 4 THEN 10 ELSE 20

\* the entry of the history for a tactic about to start
NewTrace == [before_ok |-> TRUE, probe |-> "not_run", after_ok |-> TRUE,
             measure |-> "not_run", page_before |-> page, page_after |-> page]

LoopNextPausesBeforeEveryTactic ==
    /\ pc = "loop"
    /\ IF idx = Len(Catalog)
       THEN /\ pc' = "summary"
            /\ UNCHANGED <<idx, levels_executed, sleeps, trace>>
       ELSE /\ idx' = idx + 1
            /\ pc' = "before"
            /\ trace' = Append(trace, NewTrace)
            /\ IF mode = "liberation"
               THEN /\ levels_executed' = levels_executed \cup {Catalog[idx + 1].level}
                    /\ sleeps' = Append(sleeps, [at |-> "level",
                                                 level |-> Catalog[idx + 1].level,
                                                 before |-> idx + 1,
                                                 tenths |-> 10])
               ELSE UNCHANGED <<levels_executed, sleeps>>
    /\ UNCHANGED <<mode, results, before_state, after_state, result, exc,
                   screenshots, page, alive, clock, devs>>

\* The head of the for loop: the next tactic, or the summary when the catalog
\* is exhausted.  The liberation executor logs and pauses on a level it has
\* not executed yet (lines 420-429).
LoopNext ==
    /\ pc = "loop"
    /\ IF idx = Len(Catalog)
       THEN /\ pc' = "summary"
            /\ UNCHANGED <<idx, levels_executed, sleeps, trace>>
       ELSE /\ idx' = idx + 1
            /\ pc' = "before"
            /\ trace' = Append(trace, NewTrace)
            /\ IF mode = "liberation" /\ Catalog[idx + 1].level \notin levels_executed
               THEN /\ levels_executed' = levels_executed \cup {Catalog[idx + 1].level}
                    /\ sleeps' = Append(sleeps, [at |-> "level",
                                                 level |-> Catalog[idx + 1].level,
                                                 before |-> idx + 1,
                                                 tenths |-> 10])
               ELSE UNCHANGED <<levels_executed, sleeps>>
    /\ UNCHANGED <<mode, results, before_state, after_state, result, exc,
                   screenshots, page, alive, clock, devs>>

\* The outcomes a capture may have: it fails when the session is gone, and
\* may fail on a live session (a stale element, a script error)
CaptureOutcomes ==
    IF ~alive THEN {FALSE}
    ELSE IF MayDeviate THEN {TRUE, FALSE} ELSE {TRUE}

\* before_state of the liberation executor (line 433)
LibBeforeCapture ==
    /\ pc = "before"
    /\ mode = "liberation"
    /\ \E ok \in CaptureOutcomes :
          /\ before_state' = _capture_state_snapshot(page, ok, clock)
          /\ trace' = [trace EXCEPT ![idx].before_ok = ok]
          /\ devs' = IF alive /\ ~ok THEN devs + 1 ELSE devs
    /\ clock' = clock + 1
    /\ pc' = "execute"
    /\ UNCHANGED <<mode, idx, results, levels_executed, after_state, result, exc,
                   screenshots, sleeps, page, alive>>

\* before_state of the safe executor (lines 211-215): the driver reads are in
\* the try block, so a failing read goes to the except branch
SafeBeforeCapture ==
    /\ pc = "before"
    /\ mode = "safe"
    /\ \E ok \in CaptureOutcomes :
          /\ trace' = [trace EXCEPT ![idx].before_ok = ok]
          /\ devs' = IF alive /\ ~ok THEN devs + 1 ELSE devs
          /\ IF ok
             THEN /\ before_state' = [url |-> page.url,
                                      element_count |-> page.element_count,
                                      timestamp |-> clock]
                  /\ pc' = "execute"
                  /\ UNCHANGED exc
             ELSE /\ exc' = DriverException
                  /\ pc' = OnRaise(DriverException)
                  /\ UNCHANGED before_state
    /\ clock' = clock + 1
    /\ UNCHANGED <<mode, idx, results, levels_executed, after_state, result,
                   screenshots, sleeps, page, alive>>

\* What the method of the current tactic may do, with the number of
\* non-nominal inputs each choice draws
ProbeChoices ==
    IF ~alive
    THEN {[outcome |-> "session_lost", to |-> page, cost |-> 0]}
    ELSE {c \in [outcome : ProbeOutcomes, to : Pages, cost : 0..2] :
            /\ c.cost = (IF c.outcome = "ret_true" THEN 0 ELSE 1)
                        + (IF c.to = page THEN 0 ELSE 1)
            /\ devs + c.cost <= MaxDeviations}

\* result = tactic['method']() (lines 219 and 437)
Execute ==
    /\ pc = "execute"
    /\ \E c \in ProbeChoices :
          /\ page' = c.to
          /\ alive' = (alive /\ c.outcome # "session_lost")
          /\ devs' = devs + c.cost
          /\ trace' = [trace EXCEPT ![idx].probe = c.outcome, ![idx].page_after = c.to]
          /\ IF ProbeRaises(c.outcome)
             THEN /\ exc' = ProbeException(c.outcome)
                  /\ pc' = OnRaise(ProbeException(c.outcome))
                  /\ UNCHANGED result
             ELSE /\ result' = ProbeReturn(c.outcome)
                  /\ pc' = IF mode = "liberation" THEN "after" ELSE "record"
                  /\ UNCHANGED exc
    /\ UNCHANGED <<mode, idx, results, levels_executed, before_state, after_state,
                   screenshots, sleeps, clock>>

LibAfterCaptureThenNextTactic ==
    /\ pc = "after"
    /\ mode = "liberation"
    /\ \E ok \in CaptureOutcomes :
          /\ after_state' = _capture_state_snapshot(page, ok, clock)
          /\ trace' = [trace EXCEPT ![idx].after_ok = ok]
          /\ devs' = IF alive /\ ~ok THEN devs + 1 ELSE devs
    /\ clock' = clock + 1
    /\ pc' = "loop"
    /\ UNCHANGED <<mode, idx, results, levels_executed, before_state, result, exc,
                   screenshots, sleeps, page, alive>>

\* after_state of the liberation executor (line 441)
LibAfterCapture ==
    /\ pc = "after"
    /\ mode = "liberation"
    /\ \E ok \in CaptureOutcomes :
          /\ after_state' = _capture_state_snapshot(page, ok, clock)
          /\ trace' = [trace EXCEPT ![idx].after_ok = ok]
          /\ devs' = IF alive /\ ~ok THEN devs + 1 ELSE devs
    /\ clock' = clock + 1
    /\ pc' = "record"
    /\ UNCHANGED <<mode, idx, results, levels_executed, before_state, result, exc,
                   screenshots, sleeps, page, alive>>

\* What self.take_screenshot may do: return a path, return None, raise
ScreenshotOutcomes ==
    IF MayDeviate THEN {"saved", "none", "raises"} ELSE {"saved"}

\* Lines 443-491 of the liberation executor: build enhanced_result, handle
\* success, append, pause.  Reading impact['significant_change'] (line 463)
\* raises KeyError when the impact dict has no such key.
LibRecord ==
    /\ pc = "record"
    /\ mode = "liberation"
    /\ LET tactic == Catalog[idx]
           enhanced_result == LiberationResult(tactic, result, before_state, after_state)
           appended(r) ==
               /\ results' = Append(results, r)
               /\ sleeps' = Append(sleeps, [at |-> "tactic",
                                            level |-> tactic.level,
                                            before |-> idx + 1,
                                            tenths |-> AdaptivePause(tactic.level)])
               /\ pc' = "loop"
               /\ UNCHANGED exc
       IN  IF enhanced_result.success
           THEN IF "significant_change" \notin DOMAIN enhanced_result.impact
                THEN /\ exc' = KeyErrorOf("significant_change")
                     /\ pc' = OnRaise(KeyErrorOf("significant_change"))
                     /\ UNCHANGED <<results, sleeps, screenshots, devs>>
                ELSE IF enhanced_result.impact.significant_change
                THEN \E shot \in ScreenshotOutcomes :
                        /\ devs' = IF shot = "saved" THEN devs ELSE devs + 1
                        /\ IF shot = "saved"
                           THEN /\ appended(enhanced_result @@
                                       [screenshot |-> <<"liberation_", tactic.name>>])
                                /\ screenshots' =
                                       Append(screenshots, <<"liberation_", tactic.name>>)
                           ELSE /\ appended(enhanced_result)
                                /\ UNCHANGED screenshots
                ELSE /\ appended(enhanced_result)
                     /\ UNCHANGED <<screenshots, devs>>
           ELSE /\ appended(enhanced_result)
                /\ UNCHANGED <<screenshots, devs>>
    /\ UNCHANGED <<mode, idx, levels_executed, before_state, after_state, result,
                   page, alive, clock, trace>>

\* How the driver reads of _measure_tactic_impact may go
MeasureChoices ==
    IF MayDeviate THEN MeasureOutcomes ELSE {"ok"}

\* Lines 222-262 of the safe executor: build enhanced_result (which measures
\* the impact), handle success, append, pause
SafeRecord ==
    /\ pc = "record"
    /\ mode = "safe"
    /\ \E measure \in MeasureChoices :
        LET tactic == Catalog[idx]
            enhanced_result == SafeResult(tactic, result, before_state, page, measure)
            spent == IF measure = "ok" THEN devs ELSE devs + 1
        IN  /\ trace' = [trace EXCEPT ![idx].measure = measure]
            /\ IF enhanced_result.success /\ enhanced_result.impact.elements_changed > 0
               THEN \E shot \in (IF spent < MaxDeviations
                                 THEN {"saved", "none", "raises"} ELSE {"saved"}) :
                       /\ devs' = IF shot = "saved" THEN spent ELSE spent + 1
                       /\ IF shot = "saved"
                          THEN /\ results' = Append(results, enhanced_result @@
                                      [screenshot |-> <<"safe_", tactic.name>>])
                               /\ screenshots' =
                                      Append(screenshots, <<"safe_", tactic.name>>)
                          ELSE /\ results' = Append(results, enhanced_result)
                               /\ UNCHANGED screenshots
               ELSE /\ results' = Append(results, enhanced_result)
                    /\ devs' = spent
                    /\ UNCHANGED screenshots
    /\ sleeps' = Append(sleeps, [at |-> "tactic", level |-> 0, before |-> idx + 1,
                                 tenths |-> 5])
    /\ pc' = "loop"
    /\ UNCHANGED <<mode, idx, levels_executed, before_state, after_state, result, exc,
                   page, alive, clock>>

ExceptDropsResult ==
    /\ pc = "except"
    /\ pc' = "loop"
    /\ UNCHANGED <<mode, idx, results, levels_executed, before_state, after_state,
                   result, exc, screenshots, sleeps, page, alive, clock, trace, devs>>

ExceptStopsOnSessionLoss ==
    /\ pc = "except"
    /\ IF exc.type = "InvalidSessionIdException"
       THEN pc' = "summary" /\ UNCHANGED results
       ELSE pc' = "loop" /\ results' = Append(results, FailureResult(Catalog[idx], exc))
    /\ UNCHANGED <<mode, idx, levels_executed, before_state, after_state, result, exc,
                   screenshots, sleeps, page, alive, clock, trace, devs>>

\* The except branch of the loop body (lines 264-274 and 493-504): the
\* failure is appended and the loop goes on, without a pause
Except ==
    /\ pc = "except"
    /\ results' = Append(results, FailureResult(Catalog[idx], exc))
    /\ pc' = "loop"
    /\ UNCHANGED <<mode, idx, levels_executed, before_state, after_state, result, exc,
                   screenshots, sleeps, page, alive, clock, trace, devs>>

\* The summary after the loop (lines 276-280 and 506-521) and the return.
\* It reads r['success'] of every result and, in the liberation executor,
\* r['level']: a missing key raises KeyError outside any try block.
Summary ==
    /\ pc = "summary"
    /\ LET needed == IF mode = "liberation" THEN {"success", "level"} ELSE {"success"}
       IN  IF \A i \in 1..Len(results) : needed \subseteq DOMAIN results[i]
           THEN pc' = "done" /\ UNCHANGED exc
           ELSE pc' = "raised" /\ exc' = KeyErrorOf("level")
    /\ UNCHANGED <<mode, idx, results, levels_executed, before_state, after_state,
                   result, screenshots, sleeps, page, alive, clock, trace, devs>>

\* The keys of the report _initialize_report builds (lines 4796-4858); the
\* executors get this report and only append to its artifacts
InitialReportKeys ==
    {"metadata", "discoveries", "liberation_results", "captured_data", "analysis",
     "artifacts", "baseline", "scraper_blueprint", "recommended_approach"}

\* An executor about to run its catalog against the session, which holds the
\* page scout_site navigated to
ExecInit ==
    /\ mode \in {"safe", "liberation"}
    /\ pc = "loop"
    /\ idx = 0
    /\ results = << >>
    /\ levels_executed = {}
    /\ before_state = << >>
    /\ after_state = << >>
    /\ result = << >>
    /\ exc = << >>
    /\ screenshots = << >>
    /\ sleeps = << >>
    /\ page = PageBlocked
    /\ alive = TRUE
    /\ clock = 0
    /\ trace = << >>
    /\ devs = 0

-----------------------------------------------------------------------------
(* Specification of the tactic executors: one run of _run_safe_tactics or    *)
(* of _run_liberation_tactics against a session, between the DOM diffs of    *)
(* the checkpoints around it                                                 *)

\* What the page script of _detect_dom_changes answers on page pg at time ts:
\* the element count, the text length and a hash that differs between
\* different pages
StatsOfPage(pg, ts) ==
    [total_elements |-> pg.element_count,
     body_length |-> pg.body_length,
     body_hash |-> <<pg.url, pg.element_count, pg.body_length>>,
     timestamp |-> ts]

\* scout_site runs the executor between the checkpoints after_phase1 and
\* after_liberation (lines 85-95): the _detect_dom_changes call of the first
\* has stored the statistics of the page the executor starts on
DomInitAfterPhase1 ==
    /\ _last_dom_stats = StatsOfPage(PageBlocked, 0)
    /\ dom_changes = DomChangesOf(NoStats, StatsOfPage(PageBlocked, 0))
    /\ dom_prev = NoStats
    /\ dom_calls = 1

\* The _detect_dom_changes call of the checkpoint after the executor has
\* returned (lines 95 and 614): the script answers for the page the tactics
\* left, or raises when the session is gone
DetectDomChangesAfterRun ==
    /\ pc = "done"
    /\ dom_calls = 1
    /\ IF alive
       THEN /\ dom_changes' = DomChangesOf(_last_dom_stats, StatsOfPage(page, 1000 * clock))
            /\ _last_dom_stats' = StatsOfPage(page, 1000 * clock)
       ELSE /\ dom_changes' = DomChangesError("Message: invalid session id")
            /\ UNCHANGED _last_dom_stats
    /\ dom_prev' = _last_dom_stats
    /\ dom_calls' = dom_calls + 1

InitExec == ExecInit /\ DomInitAfterPhase1 /\ CpInit

NextExec ==
    \/ LoopNext /\ UNCHANGED <<dom_vars, cp_vars>>
    \/ LibBeforeCapture /\ UNCHANGED <<dom_vars, cp_vars>>
    \/ SafeBeforeCapture /\ UNCHANGED <<dom_vars, cp_vars>>
    \/ Execute /\ UNCHANGED <<dom_vars, cp_vars>>
    \/ LibAfterCapture /\ UNCHANGED <<dom_vars, cp_vars>>
    \/ LibRecord /\ UNCHANGED <<dom_vars, cp_vars>>
    \/ SafeRecord /\ UNCHANGED <<dom_vars, cp_vars>>
    \/ Except /\ UNCHANGED <<dom_vars, cp_vars>>
    \/ Summary /\ UNCHANGED <<dom_vars, cp_vars>>
    \/ DetectDomChangesAfterRun /\ UNCHANGED <<exec_vars, cp_vars>>

SpecExec == InitExec /\ [][NextExec]_vars

-----------------------------------------------------------------------------
(* Specification of the diff engine on its own: any sequence of             *)
(* _detect_dom_changes calls on one engine                                  *)

\* the executor is idle
ExecIdle ==
    /\ mode = "liberation"
    /\ pc = "idle"
    /\ idx = 0
    /\ results = << >>
    /\ levels_executed = {}
    /\ before_state = << >>
    /\ after_state = << >>
    /\ result = << >>
    /\ exc = << >>
    /\ screenshots = << >>
    /\ sleeps = << >>
    /\ page = PageBlocked
    /\ alive = TRUE
    /\ clock = 0
    /\ trace = << >>
    /\ devs = 0

InitDiff == DomInit /\ ExecIdle /\ CpInit

NextDiff ==
    \/ DetectDomChanges /\ UNCHANGED <<exec_vars, cp_vars>>
    \/ DetectDomChangesFails /\ UNCHANGED <<exec_vars, cp_vars>>

SpecDiff == InitDiff /\ [][NextDiff]_vars

-----------------------------------------------------------------------------
(* Specification of _calculate_impact and _detect_state_changes as functions *)
(* of two state dicts: one assessment of a before and an after dict.         *)
(* before_state and after_state hold the arguments, result the impact        *)
(* returned and results the list _detect_state_changes returned.             *)

\* The optional entries _calculate_impact reads with a default (lines 3454,
\* 3457, 3460)
OverlayEntries == {<< >>, [has_overlays |-> TRUE], [has_overlays |-> FALSE]}
InteractiveEntries == {<< >>, [interactive_elements |-> 0], [interactive_elements |-> 3]}

\* State dicts: those _capture_state_snapshot builds, with or without the
\* optional entries, and the dict of a failed capture
StateDicts ==
    {base @@ o @@ i :
        base \in [url : {"https://site/article", "https://site/login"},
                  title : {"Article"},
                  element_count : {100, 115},
                  body_length : {0, 500, 560, 2001},
                  cookies : {1},
                  local_storage_items : {0},
                  timestamp : {0}],
        o \in OverlayEntries, i \in InteractiveEntries}
    \cup {_capture_state_snapshot(PageBlocked, FALSE, 0)}

\* One assessment: self._calculate_impact(before, after) and
\* self._detect_state_changes(before, after)
CalculateImpact ==
    /\ pc = "assess"
    /\ \E before \in StateDicts, after \in StateDicts :
          /\ before_state' = before
          /\ after_state' = after
          /\ result' = _calculate_impact(before, after)
          /\ results' = _detect_state_changes(before, after)
    /\ pc' = "assessed"
    /\ UNCHANGED <<mode, idx, levels_executed, exc, screenshots, sleeps,
                   page, alive, clock, trace, devs>>

InitImpact ==
    /\ DomInit
    /\ CpInit
    /\ mode = "liberation"
    /\ pc = "assess"
    /\ idx = 0
    /\ results = << >>
    /\ levels_executed = {}
    /\ before_state = << >>
    /\ after_state = << >>
    /\ result = << >>
    /\ exc = << >>
    /\ screenshots = << >>
    /\ sleeps = << >>
    /\ page = PageBlocked
    /\ alive = TRUE
    /\ clock = 0
    /\ trace = << >>
    /\ devs = 0

NextImpact == CalculateImpact /\ UNCHANGED <<dom_vars, cp_vars>>

SpecImpact == InitImpact /\ [][NextImpact]_vars

-----------------------------------------------------------------------------
(* ReconEngine._find_new_elements, recon_engine.py 1359-1438 *)

\* Two of the seven selectors the page script counts (lines 1372-1380); every
\* selector goes through the same code
ElementSelectors == <<"button", "a[href]">>

\* state.counts of the page script (lines 1383-1385): no element of the pages
\* carries a data-seen attribute, so a page's buttons and links are the
\* counts its new_buttons and new_links entries hold
ElementCountsOf(pg) ==
    [sel \in {"button", "a[href]"} |->
        IF sel = "button" THEN pg.new_buttons ELSE pg.new_links]

\* the samples the script takes of one selector: its first two elements
\* (lines 1388-1401)
SamplesOf(sel, count) ==
    [i \in 1..(IF count < 2 THEN count ELSE 2) |-> [selector |-> sel, index |-> i]]

\* What the page script answers on page pg
ElementStateOf(pg) ==
    [counts |-> ElementCountsOf(pg),
     samples |-> SamplesOf("button", ElementCountsOf(pg)["button"])
                 \o SamplesOf("a[href]", ElementCountsOf(pg)["a[href]"])]

\* self._last_element_state.get('counts', {}).get(selector, 0) (line 1411)
LastCount(last_state, sel) ==
    IF "counts" \in DOMAIN last_state /\ sel \in DOMAIN last_state.counts
    THEN last_state.counts[sel] ELSE 0

GrewOrSame(count, last_count) == count >= last_count

\* 'if count > last_count' (line 1412)
Grew(count, last_count) == count > last_count

\* the entries one selector contributes (lines 1412-1424)
NewEntriesFor(sel, last_state, current_state) ==
    LET count == current_state.counts[sel]
        last_count == LastCount(last_state, sel)
        OfSelector(sample) == sample.selector = sel
        samples == SelectSeq(current_state.samples, OfSelector)
    IN  IF Grew(count, last_count)
        THEN [i \in 1..Len(samples) |->
                 samples[i] @@ [change_type |-> "new",
                                count_change |-> count - last_count]]
        ELSE << >>

\* new_elements[:20] (line 1427)
FirstTwenty(seq) == SubSeq(seq, 1, IF Len(seq) < 20 THEN Len(seq) ELSE 20)

\* the loop over current_state['counts'], from the i-th selector on
RECURSIVE NewEntriesFrom(_, _, _)
NewEntriesFrom(i, last_state, current_state) ==
    IF i > Len(ElementSelectors) THEN << >>
    ELSE NewEntriesFor(ElementSelectors[i], last_state, current_state)
         \o NewEntriesFrom(i + 1, last_state, current_state)

FindNewElementsOnFirstScanToo(last_state, current_state) ==
    FirstTwenty(NewEntriesFrom(1, last_state, current_state))

\* The list a call returns when the page script answered current_state: empty
\* on the first scan (lines 1408-1430)
_find_new_elements(last_state, current_state) ==
    IF last_state = NoStats THEN << >>
    ELSE FirstTwenty(NewEntriesFrom(1, last_state, current_state))

-----------------------------------------------------------------------------
(* ReconEngine._capture_checkpoint, recon_engine.py 606-650.  Of the         *)
(* checkpoint dict, 'ready_state', 'network_activity' and 'metrics' are left *)
(* out: they are stored unread, and the helpers that fill the last two catch *)
(* their own errors (lines 812-847, 3389-3404).                              *)

\* the checkpoint names scout_site uses, in its order (lines 85-135)
CheckpointNames ==
    <<"after_phase1", "after_liberation", "after_analysis", "after_task_exploration",
      "final_state">>

\* What the driver and take_screenshot may do during one call: the reads of
\* url, title and readyState (lines 611-613), the page script of
\* _detect_dom_changes, the page script of _find_new_elements, the screenshot
\* (a path, None, or an exception), and whether the wall clock moves on
CheckpointInputs ==
    [reads_ok : BOOLEAN, dom_ok : BOOLEAN, scan_ok : BOOLEAN,
     shot : {"saved", "none", "raises"}, tick : {0, 1}]

\* the number of inputs of c that are not the nominal one
FaultsOf(c) ==
    (IF c.reads_ok THEN 0 ELSE 1) + (IF c.dom_ok THEN 0 ELSE 1)
        + (IF c.scan_ok THEN 0 ELSE 1) + (IF c.shot = "saved" THEN 0 ELSE 1)

\* The inputs a call may draw: when a first read raises the call ends there,
\* so nothing else is drawn
CheckpointChoices ==
    {c \in CheckpointInputs :
        /\ ~c.reads_ok => (c.dom_ok /\ c.scan_ok /\ c.shot = "saved")
        /\ devs + FaultsOf(c) <= MaxCheckpointFaults}

CheckpointDataAlwaysReferenced(name, now, pg, changes, new_elements, shot) ==
    [name |-> name,
     timestamp |-> now,
     url |-> pg.url,
     title |-> pg.title,
     dom_changes |-> changes,
     new_elements |-> new_elements,
     screenshot |-> <<"checkpoint_", name>>]

\* checkpoint_data as built at lines 608-618 and completed at line 637
CheckpointData(name, now, pg, changes, new_elements, shot) ==
    LET data == [name |-> name,
                 timestamp |-> now,
                 url |-> pg.url,
                 title |-> pg.title,
                 dom_changes |-> changes,
                 new_elements |-> new_elements]
    IN  IF shot = "saved"
        THEN data @@ [screenshot |-> <<"checkpoint_", name>>]
        ELSE data

\* the timeline entry of lines 644-648
TimelineEntry(name, now) ==
    [checkpoint |-> name, timestamp |-> now, event |-> <<"Captured checkpoint:", name>>]

\* One call self._capture_checkpoint(name, report)
CaptureCheckpoint ==
    /\ pc = "checkpoints"
    /\ Len(cp_trace) < MaxCheckpoints
    /\ \E c \in CheckpointChoices :
        LET name == CheckpointNames[Len(cp_trace) + 1]
            stats == StatsOfPage(page, 1000 * clock)
            changes == IF c.dom_ok THEN DomChangesOf(_last_dom_stats, stats)
                       ELSE DomChangesError("Message: javascript error")
            scanned == ElementStateOf(page)
            new_elements == IF c.scan_ok
                            THEN _find_new_elements(_last_element_state, scanned)
                            ELSE << >>
        IN  /\ cp_trace' = Append(cp_trace,
                   [name |-> name, page |-> page, now |-> clock,
                    raised |-> ~c.reads_ok, dom_ok |-> c.dom_ok, scan_ok |-> c.scan_ok,
                    shot |-> c.shot, last_scan |-> _last_element_state])
            /\ devs' = devs + FaultsOf(c)
            /\ clock' = clock + c.tick
            /\ IF ~c.reads_ok
               THEN UNCHANGED <<dom_vars, dom_snapshots, metadata_timeline,
                                _last_element_state, screenshots>>
               ELSE /\ dom_changes' = changes
                    /\ _last_dom_stats' = IF c.dom_ok THEN stats ELSE _last_dom_stats
                    /\ dom_prev' = _last_dom_stats
                    /\ dom_calls' = dom_calls + 1
                    /\ _last_element_state' =
                           IF c.scan_ok THEN scanned ELSE _last_element_state
                    /\ screenshots' =
                           IF c.shot = "saved"
                           THEN Append(screenshots, <<"checkpoint_", name>>)
                           ELSE screenshots
                    /\ dom_snapshots' = Append(dom_snapshots,
                           CheckpointData(name, clock, page, changes, new_elements, c.shot))
                    /\ metadata_timeline' =
                           Append(metadata_timeline, TimelineEntry(name, clock))
    /\ UNCHANGED <<mode, pc, idx, results, levels_executed, before_state, after_state,
                   result, exc, sleeps, page, alive, trace>>

\* The pages a checkpoint may find: no control, one button, two buttons and
\* five links
CheckpointPages == {PageBlank, PageLogin, PageOpen}

\* Between two checkpoints the site, or what scout_site does to it, turns the
\* page into another
PageChanges ==
    /\ pc = "checkpoints"
    /\ Len(cp_trace) < MaxCheckpoints
    /\ page' \in CheckpointPages \ {page}
    /\ UNCHANGED <<mode, pc, idx, results, levels_executed, before_state, after_state,
                   result, exc, screenshots, sleeps, alive, clock, trace, devs>>
    /\ UNCHANGED <<dom_vars, cp_vars>>

-----------------------------------------------------------------------------
(* Specification of the checkpoints: any sequence of _capture_checkpoint     *)
(* calls on one engine, on a page that may change between them               *)

InitCheckpoint ==
    /\ DomInit
    /\ CpInit
    /\ mode = "liberation"
    /\ pc = "checkpoints"
    /\ idx = 0
    /\ results = << >>
    /\ levels_executed = {}
    /\ before_state = << >>
    /\ after_state = << >>
    /\ result = << >>
    /\ exc = << >>
    /\ screenshots = << >>
    /\ sleeps = << >>
    /\ page \in CheckpointPages
    /\ alive = TRUE
    /\ clock = 0
    /\ trace = << >>
    /\ devs = 0

NextCheckpoint ==
    \/ CaptureCheckpoint
    \/ PageChanges

SpecCheckpoint == InitCheckpoint /\ [][NextCheckpoint]_vars

-----------------------------------------------------------------------------
(* ReconEngine._analyze_tactic_effectiveness, recon_engine.py 3590-3632.     *)
(* The 'recommendations' entry is a list of sentences built from the other   *)
(* entries and is left out.                                                  *)

\* result.get('success'): a missing entry is None, which is false
SucceededResult(r) == Get(r, "success", FALSE) = TRUE

\* result.get('impact', {}).get('effectiveness') == 'high' (line 3608)
HighImpactResult(r) ==
    /\ "impact" \in DOMAIN r
    /\ Get(r.impact, "effectiveness", None) = "high"

\* the analysis dict as initialised (lines 3593-3600)
InitialAnalysis(rs) ==
    [total_tactics |-> Len(rs),
     successful_tactics |-> 0,
     high_impact_tactics |-> << >>,
     failed_tactics |-> << >>,
     most_effective |-> None]

AnalyzeResultFailedOnlyIfFlagged(analysis, r) ==
    IF SucceededResult(r)
    THEN [analysis EXCEPT
             !.successful_tactics = @ + 1,
             !.high_impact_tactics =
                 IF HighImpactResult(r)
                 THEN Append(@, [name |-> Get(r, "tactic", None),
                                 impact |-> Get(r.impact, "features_unlocked", << >>)])
                 ELSE @]
    ELSE IF "success" \in DOMAIN r
    THEN [analysis EXCEPT !.failed_tactics = Append(@, Get(r, "tactic", None))]
    ELSE analysis

\* One pass of the loop body (lines 3603-3614)
AnalyzeResult(analysis, r) ==
    IF SucceededResult(r)
    THEN [analysis EXCEPT
             !.successful_tactics = @ + 1,
             !.high_impact_tactics =
                 IF HighImpactResult(r)
                 THEN Append(@, [name |-> Get(r, "tactic", None),
                                 impact |-> Get(r.impact, "features_unlocked", << >>)])
                 ELSE @]
    ELSE [analysis EXCEPT !.failed_tactics = Append(@, Get(r, "tactic", None))]

\* The loop over results, from the i-th result on
RECURSIVE AnalyzeResultsFrom(_, _, _)
AnalyzeResultsFrom(analysis, i, rs) ==
    IF i > Len(rs) THEN analysis
    ELSE AnalyzeResultsFrom(AnalyzeResult(analysis, rs[i]), i + 1, rs)

MostEffectiveIsLast(high_impact_tactics) ==
    IF high_impact_tactics # << >>
    THEN high_impact_tactics[Len(high_impact_tactics)].name
    ELSE None

\* lines 3617-3618
MostEffective(high_impact_tactics) ==
    IF high_impact_tactics # << >> THEN high_impact_tactics[1].name ELSE None

\* successful / total * 100, unrounded, or 0 for no result (lines 3627-3630)
SuccessRate(successful, total) ==
    IF total > 0 THEN Pct(successful * 100, total) ELSE Pct(0, 1)

_analyze_tactic_effectiveness(rs) ==
    LET analysis == AnalyzeResultsFrom(InitialAnalysis(rs), 1, rs)
    IN  [total_tactics |-> analysis.total_tactics,
         successful_tactics |-> analysis.successful_tactics,
         high_impact_tactics |-> analysis.high_impact_tactics,
         failed_tactics |-> analysis.failed_tactics,
         most_effective |-> MostEffective(analysis.high_impact_tactics),
         success_rate |-> SuccessRate(analysis.successful_tactics, analysis.total_tactics)]

-----------------------------------------------------------------------------
(* Specification of _analyze_tactic_effectiveness as a function of a result  *)
(* list: results holds the argument, result the analysis returned            *)

\* What a result may say of its success: true, false, or nothing
SuccessEntries == {[success |-> TRUE], [success |-> FALSE], << >>}

\* What a result may say of its impact: a rating, or nothing
ImpactEntries ==
    {[impact |-> [effectiveness |-> e, features_unlocked |-> <<"unobstructed_view">>]] :
        e \in {"high", "medium", "low"}} \cup {<< >>}

\* The result lists of n tactics, the i-th being that of the i-th tactic of
\* the liberation catalog
ResultLists(n) ==
    {rs \in [1..n -> {[tactic |-> liberation_sequence[i].name] @@ su @@ im :
                         i \in 1..n, su \in SuccessEntries, im \in ImpactEntries}] :
        \A i \in 1..n : rs[i].tactic = liberation_sequence[i].name}

\* One call self._analyze_tactic_effectiveness(results)
AnalyzeTacticEffectiveness ==
    /\ pc = "analyze"
    /\ result' = _analyze_tactic_effectiveness(results)
    /\ pc' = "analyzed"
    /\ UNCHANGED <<mode, idx, results, levels_executed, before_state, after_state, exc,
                   screenshots, sleeps, page, alive, clock, trace, devs>>

InitAnalyze ==
    /\ DomInit
    /\ CpInit
    /\ mode = "liberation"
    /\ pc = "analyze"
    /\ idx = 0
    /\ \E n \in 0..MaxAnalyzed : results \in ResultLists(n)
    /\ levels_executed = {}
    /\ before_state = << >>
    /\ after_state = << >>
    /\ result = << >>
    /\ exc = << >>
    /\ screenshots = << >>
    /\ sleeps = << >>
    /\ page = PageBlocked
    /\ alive = TRUE
    /\ clock = 0
    /\ trace = << >>
    /\ devs = 0

NextAnalyze == AnalyzeTacticEffectiveness /\ UNCHANGED <<dom_vars, cp_vars>>

SpecAnalyze == InitAnalyze /\ [][NextAnalyze]_vars

-----------------------------------------------------------------------------
(* ReconEngine.scout_site (lines 33-140) on one engine, which a caller may   *)
(* use again for another target once a call has returned or raised.          *)
(* trace holds one entry per call, cp_trace one per checkpoint call, result  *)
(* the report under construction or the value returned.                      *)

\* the urls scouted
ScoutTargets == {"https://site/article", "https://other/home"}

\* the page go_to_url loads for a url: a login page with one button on the
\* first target, an article with two buttons and five links on the other
ScoutPage(url) ==
    IF url = "https://site/article"
    THEN [PageLogin EXCEPT !.url = url]
    ELSE [PageOpen EXCEPT !.url = url]

\* the urls a caller may scout next: another target than the last one
NextTargets ==
    IF trace = << >> THEN ScoutTargets ELSE ScoutTargets \ {trace[Len(trace)].url}

\* the report of _initialize_report (lines 4796-4858), as far as scout_site
\* and the checkpoints use it; its captured_data is a dict of its own
\* (lines 4827-4831)
_initialize_report(url, report_mode) ==
    [metadata |-> [url |-> url, mode |-> report_mode],
     liberation_results |-> << >>,
     captured_data |-> [dom_snapshots |-> << >>, metadata_timeline |-> << >>]]

\* the parameters besides self of _run_safe_tactics and of
\* _run_liberation_tactics (lines 166 and 282); none has a default
ExecutorParameters == {"report"}

\* the arguments scout_site passes them (lines 90 and 93)
ExecutorArguments == {}

\* the required parameters a call leaves unbound
MissingArguments(parameters, arguments) == parameters \ arguments

\* calling a method without a required positional argument
TypeErrorOf(missing) ==
    [type |-> "TypeError", msg |-> <<"missing required positional argument", missing>>]

\* the number of the scout_site call in progress, or of the last one
Run == Len(trace)

\* scout_site from its call to the end of phase 1 (lines 33-83): go_to_url
\* fails and the call returns None, or the report is initialised and the
\* baseline and the phase 1 discoveries are taken.  safe_mode and the task
\* execute_with_task may have set (lines 144-145) are the caller's.
ScoutSiteNavigate ==
    /\ pc = "engine"
    /\ Len(trace) < MaxRuns
    /\ \E url \in NextTargets, safe_mode \in BOOLEAN, current_task \in BOOLEAN,
          reached \in BOOLEAN :
        LET call == [url |-> url, safe_mode |-> safe_mode, current_task |-> current_task,
                     navigated |-> reached, checkpoints |-> << >>, tactics_run |-> FALSE,
                     outcome |-> IF reached THEN "running" ELSE "returned"]
        IN  /\ mode' = IF safe_mode THEN "safe" ELSE "liberation"
            /\ trace' = Append(trace, call)
            /\ IF reached
               THEN /\ page' = ScoutPage(url)
                    /\ result' = _initialize_report(url, mode')
                    /\ pc' = "phase1"
               ELSE /\ result' = None
                    /\ pc' = "engine"
                    /\ UNCHANGED page
    /\ UNCHANGED <<idx, results, levels_executed, before_state, after_state, exc,
                   screenshots, sleeps, alive, clock, devs>>
    /\ UNCHANGED <<dom_vars, cp_vars>>

\* self._capture_checkpoint("after_phase1", report) (line 85); an exception
\* of its first driver reads leaves scout_site
ScoutCheckpointAfterPhase1 ==
    /\ pc = "phase1"
    /\ \E c \in {d \in CheckpointChoices : d.tick = 1} :
        LET name == CheckpointNames[1]
            stats == StatsOfPage(page, 1000 * clock)
            changes == IF c.dom_ok THEN DomChangesOf(_last_dom_stats, stats)
                       ELSE DomChangesError("Message: javascript error")
            scanned == ElementStateOf(page)
            new_elements == IF c.scan_ok
                            THEN _find_new_elements(_last_element_state, scanned)
                            ELSE << >>
        IN  /\ cp_trace' = Append(cp_trace,
                   [name |-> name, page |-> page, now |-> clock,
                    raised |-> ~c.reads_ok, dom_ok |-> c.dom_ok, scan_ok |-> c.scan_ok,
                    shot |-> c.shot, last_scan |-> _last_element_state, run |-> Run])
            /\ devs' = devs + FaultsOf(c)
            /\ clock' = clock + c.tick
            /\ IF ~c.reads_ok
               THEN /\ exc' = DriverException
                    /\ trace' = [trace EXCEPT ![Run].outcome = "raised"]
                    /\ pc' = "engine"
                    /\ UNCHANGED <<dom_vars, dom_snapshots, metadata_timeline,
                                   _last_element_state, screenshots>>
               ELSE /\ dom_changes' = changes
                    /\ _last_dom_stats' = IF c.dom_ok THEN stats ELSE _last_dom_stats
                    /\ dom_prev' = _last_dom_stats
                    /\ dom_calls' = dom_calls + 1
                    /\ _last_element_state' =
                           IF c.scan_ok THEN scanned ELSE _last_element_state
                    /\ screenshots' =
                           IF c.shot = "saved"
                           THEN Append(screenshots, <<"checkpoint_", name>>)
                           ELSE screenshots
                    /\ dom_snapshots' = Append(dom_snapshots,
                           CheckpointData(name, clock, page, changes, new_elements, c.shot))
                    /\ metadata_timeline' =
                           Append(metadata_timeline, TimelineEntry(name, clock))
                    /\ trace' = [trace EXCEPT ![Run].checkpoints = Append(@, name)]
                    /\ pc' = "tactics"
                    /\ UNCHANGED exc
    /\ UNCHANGED <<mode, idx, results, levels_executed, before_state, after_state,
                   result, sleeps, page, alive>>

\* Phase 2 (lines 87-93): self._run_liberation_tactics() or
\* self._run_safe_tactics(), called without the report both require, raises
\* TypeError before the executor's first statement; scout_site has no try
\* block around the call, so the exception leaves it
ScoutRunTactics ==
    /\ pc = "tactics"
    /\ MissingArguments(ExecutorParameters, ExecutorArguments) # {}
    /\ exc' = TypeErrorOf(MissingArguments(ExecutorParameters, ExecutorArguments))
    /\ trace' = [trace EXCEPT ![Run].outcome = "raised"]
    /\ pc' = "engine"
    /\ UNCHANGED <<mode, idx, results, levels_executed, before_state, after_state,
                   result, screenshots, sleeps, page, alive, clock, devs>>
    /\ UNCHANGED <<dom_vars, cp_vars>>

\* The engine as __init__ leaves it (lines 22-31), on a live session
InitScout ==
    /\ DomInit
    /\ CpInit
    /\ mode = "liberation"
    /\ pc = "engine"
    /\ idx = 0
    /\ results = << >>
    /\ levels_executed = {}
    /\ before_state = << >>
    /\ after_state = << >>
    /\ result = << >>
    /\ exc = << >>
    /\ screenshots = << >>
    /\ sleeps = << >>
    /\ page = PageBlank
    /\ alive = TRUE
    /\ clock = 0
    /\ trace = << >>
    /\ devs = 0

NextScout ==
    \/ ScoutSiteNavigate
    \/ ScoutCheckpointAfterPhase1
    \/ ScoutRunTactics

SpecScout == InitScout /\ [][NextScout]_vars

-----------------------------------------------------------------------------
(* Properties of the tactic executors, checked under SpecExec *)

\* the tactics whose method raised
RaisedAt == {k \in 1..Len(trace) : ProbeRaises(trace[k].probe)}

\* the tactics whose method found the session gone (the driver's
\* InvalidSessionIdException: the session is unreachable)
SessionLostAt == {k \in 1..Len(trace) : trace[k].probe = "session_lost"}

\* the level of a tactic name in the liberation catalog (0: not in it)
LiberationLevelOf(name) ==
    IF \E j \in 1..Len(liberation_sequence) : liberation_sequence[j].name = name
    THEN liberation_sequence[CHOOSE j \in 1..Len(liberation_sequence) :
                                 liberation_sequence[j].name = name].level
    ELSE 0

\* C1 (result completeness): when an executor returns, its result list holds
\* exactly one result per catalog entry, in catalog order, whether the
\* tactic's method returned or raised, and every result has a boolean success.
C1_ResultCompleteness ==
    /\ Len(results) <= Len(Catalog)
    /\ pc = "done" =>
          /\ Len(results) = Len(Catalog)
          /\ \A i \in 1..Len(results) :
                /\ results[i].tactic = Catalog[i].name
                /\ "success" \in DOMAIN results[i]
                /\ results[i].success \in BOOLEAN

\* C1 witness: a finished liberation run in which one method raised and
\* another returned
C1_Witness ==
    /\ pc = "done"
    /\ mode = "liberation"
    /\ \E i \in 1..Len(trace) : trace[i].probe = "raise_msg"
    /\ \E i \in 1..Len(trace) : trace[i].probe = "ret_true"

\* C2 (fault isolation): when the method of tactic k raises, result k is
\* recorded with success false and a non-empty description of the error (the
\* error field holds str(e), the details field names the exception class), and
\* the run goes on: every later tactic is attempted and recorded, in catalog
\* order.
C2_FaultIsolation ==
    \A k \in RaisedAt :
        /\ (idx > k \/ pc \in {"loop", "summary", "done"}) =>
              /\ Len(results) >= k
              /\ results[k].tactic = Catalog[k].name
              /\ results[k].success = FALSE
              /\ results[k].error = ProbeException(trace[k].probe).msg
              /\ results[k].details = <<"Exception:", ProbeException(trace[k].probe).type>>
              /\ (results[k].error # "" \/ results[k].details # << >>)
        /\ pc = "done" =>
              /\ Len(trace) = Len(Catalog)
              /\ Len(results) = Len(Catalog)
              /\ \A j \in (k + 1)..Len(Catalog) :
                    /\ results[j].tactic = Catalog[j].name
                    /\ (alive /\ trace[j].before_ok) => trace[j].probe # "not_run"

\* C2 witness: a finished run in which the method of the third tactic raised
\* and a later method returned
C2_Witness ==
    /\ pc = "done"
    /\ 3 \in RaisedAt
    /\ \E j \in 4..Len(trace) : trace[j].probe \in {"ret_true", "ret_false"}
    /\ Len(results) = Len(Catalog)

\* C3 as stated (session loss aborts the run): once the method of tactic k has
\* found the session unreachable, no result exists for tactic k or any later
\* tactic, and the report returned carries an incomplete marker.
C3_Original ==
    \A k \in SessionLostAt :
        /\ Len(results) <= k - 1
        /\ pc = "done" => "incomplete" \in InitialReportKeys

\* C3 amended: losing the session does not end the run early.  The error of
\* tactic k is caught like any other: result k is recorded as failed with the
\* error, every later tactic is still attempted and recorded as failed, so the
\* returned list holds one result per catalog entry, and the report has no
\* incomplete marker.
C3_SessionLossIsRecorded ==
    /\ "incomplete" \notin InitialReportKeys
    /\ \A k \in SessionLostAt :
          /\ pc \in {"loop", "summary", "done"} =>
                /\ Len(results) >= k
                /\ results[k].success = FALSE
                /\ results[k].error = "Message: invalid session id"
                /\ \A j \in (k + 1)..Len(results) :
                      /\ results[j].success = FALSE
                      /\ results[j].error = "Message: invalid session id"
          /\ pc = "done" => Len(results) = Len(Catalog)

\* C3 witness: a finished liberation run whose second tactic lost the session
C3_Witness ==
    /\ pc = "done"
    /\ mode = "liberation"
    /\ 2 \in SessionLostAt
    /\ Len(results) = Len(liberation_sequence)

\* C4 (no propagation): no error of a method or of a capture leaves an
\* executor.  The executor never ends by raising; the error of a method that
\* raised is the error field of its result; a failed snapshot of the
\* liberation executor carries an error marker; a failed read of the safe
\* executor's before state is the error field of the result, and a failed
\* impact measurement is the error field of the result's impact.
C4_NoPropagation ==
    /\ pc # "raised"
    /\ \A k \in RaisedAt :
          Len(results) >= k =>
              /\ results[k].success = FALSE
              /\ results[k].error = ProbeException(trace[k].probe).msg
    /\ (mode = "liberation" /\ pc \in {"execute", "after", "record"}
            /\ ~trace[idx].before_ok) => "error" \in DOMAIN before_state
    /\ (mode = "liberation" /\ pc = "record" /\ ~trace[idx].after_ok)
            => "error" \in DOMAIN after_state
    /\ \A k \in 1..Len(results) :
          /\ (mode = "safe" /\ ~trace[k].before_ok) =>
                (results[k].success = FALSE /\ results[k].error # None)
          /\ trace[k].measure \in {"raises", "raises_and_fallback_raises"} =>
                /\ results[k].impact.success = FALSE
                /\ results[k].impact.error # None

\* C4 witness: a finished safe run in which one method raised and one impact
\* measurement failed
C4_Witness ==
    /\ pc = "done"
    /\ mode = "safe"
    /\ RaisedAt # {}
    /\ \E k \in 1..Len(trace) : trace[k].measure = "raises"

\* C5 as stated (safe-catalog scenario): in a safe run, a tactic across which
\* no metric of the page changed is recorded with impact.significant_change
\* false, and its success is the success its method returned.
C5_Original ==
    mode = "safe" =>
        \A k \in 1..Len(results) :
            (/\ trace[k].probe \in {"ret_true", "ret_false", "ret_empty"}
             /\ trace[k].page_before = trace[k].page_after) =>
                /\ results[k].impact.significant_change = FALSE
                /\ results[k].success = (trace[k].probe = "ret_true")

\* C6 as stated: every tactic the safe executor executes is a level-1 tactic
\* of the liberation catalog.
C6_Original ==
    (mode = "safe" /\ idx >= 1) => LiberationLevelOf(Catalog[idx].name) = 1

\* the results of the safe executor that carry an impact assessment
AssessedResults ==
    {k \in 1..Len(results) : mode = "safe" /\ "impact" \in DOMAIN results[k]}

\* whether one of the factors the claim lists holds in the assessment im; the
\* before state of the safe executor has no overlay or blur entry, so of the
\* unlocking indicators only the new controls can fire
SomeFactorHolds(im) ==
    \/ im.elements_changed > 10
    \/ /\ "percent_change" \in DOMAIN im.content_changes
       /\ PctGT(im.content_changes.percent_change, 10)
    \/ /\ "elements_revealed" \in DOMAIN im.visibility_changes
       /\ im.visibility_changes.elements_revealed > 5
    \/ im.url_changed
    \/ /\ "liberation_indicators" \in DOMAIN im
       /\ \/ im.liberation_indicators.new_buttons > 0
          \/ im.liberation_indicators.new_links > 0

\* C13 as stated (impact significance is a monotone OR): in every impact
\* assessment returned, significant_change is true whenever the element delta
\* magnitude exceeds 10, the content percent change exceeds 10, more than 5
\* elements were revealed, the URL changed or an unlocking indicator fired, and
\* false when none of these holds.
C13_Original ==
    \A k \in AssessedResults :
        results[k].impact.significant_change = SomeFactorHolds(results[k].impact)


\* the results of the liberation executor that carry an impact computed from
\* two complete snapshots
SnapshotPairAt ==
    {k \in 1..Len(results) :
        /\ mode = "liberation"
        /\ "impact" \in DOMAIN results[k]
        /\ trace[k].before_ok /\ trace[k].after_ok}

\* C16 as stated (capture is idempotent): two snapshots taken in succession on
\* an unchanged page diff to no significant change: _detect_state_changes
\* lists no change and the impact computed from them has no feature unlocked
\* and effectiveness 'low'.
C16_Original ==
    \A k \in SnapshotPairAt :
        trace[k].page_before = trace[k].page_after =>
            /\ results[k].state_changes = << >>
            /\ results[k].impact.features_unlocked = << >>
            /\ results[k].impact.effectiveness = "low"

\* C17 as stated (partial failure): when reading one metric fails during a
\* snapshot, only that metric is omitted: the snapshot carries an error marker
\* and still holds the other metrics.
C17_Original ==
    (/\ mode = "liberation"
     /\ pc \in {"execute", "after", "record"}
     /\ ~trace[idx].before_ok) =>
        /\ "error" \in DOMAIN before_state
        /\ \E failed \in SnapshotMetrics :
              (SnapshotMetrics \ {failed}) \subseteq DOMAIN before_state

-----------------------------------------------------------------------------
(* Properties of the diff engine, checked under SpecDiff *)

\* the latest call compared two sets of statistics and did not fail
DomCompared ==
    /\ dom_calls >= 2
    /\ dom_prev # NoStats
    /\ "error" \notin DOMAIN dom_changes

\* the numeric statistics both sets hold
NumericKeysCompared ==
    {k \in (DOMAIN dom_prev) \cap (DOMAIN _last_dom_stats) :
        IsNumericStat(k) /\ k # "timestamp"}

\* the latest call saw the very values the call before it stored
SameMetrics ==
    /\ DOMAIN _last_dom_stats = DOMAIN dom_prev
    /\ \A k \in (DOMAIN _last_dom_stats) \ {"timestamp"} :
          _last_dom_stats[k] = dom_prev[k]

\* the numeric entries of the latest diff
NumericEntries ==
    {dom_changes.details[k] : k \in {x \in DOMAIN dom_changes.details :
                                        "change" \in DOMAIN dom_changes.details[x]}}

\* C7 (idempotent diff): when a _detect_dom_changes call observes exactly the
\* metric values the previous call stored, its record has significant_changes
\* false and holds no entry with a non-zero change or with a moderate or major
\* significance.
C7_IdempotentDiff ==
    (DomCompared /\ SameMetrics) =>
        /\ dom_changes.significant_changes = FALSE
        /\ \A k \in DOMAIN dom_changes.details :
              LET e == dom_changes.details[k]
              IN  /\ "change" \in DOMAIN e => e.change = 0
                  /\ "significance" \in DOMAIN e => e.significance = "minor"
                  /\ "changed" \notin DOMAIN e
        /\ dom_changes.summary = << >>

\* C7 witness: a second call on an unchanged, non-empty page, one second later
C7_Witness ==
    /\ DomCompared /\ SameMetrics
    /\ _last_dom_stats.total_elements > 0
    /\ _last_dom_stats.timestamp > dom_prev.timestamp

\* C8 as stated (monotone significance on the reported figure): a major entry
\* reports |change_percent| > 50 and a moderate entry reports a
\* |change_percent| > 20 and <= 50, the reported figure being the rounded one.
C8_Original ==
    DomCompared =>
        \A e \in NumericEntries :
            /\ e.significance = "major" => Abs(e.change_percent) > 500
            /\ e.significance = "moderate" =>
                  (Abs(e.change_percent) > 200 /\ Abs(e.change_percent) <= 500)

\* C8 amended: the classification is made on the unrounded percentage, so a
\* major entry has |change / previous * 100| > 50 and reports a rounded
\* |change_percent| >= 50; a moderate entry has an unrounded percentage > 20
\* and <= 50 and reports a rounded |change_percent| >= 20 and <= 50.
C8_MonotoneSignificance ==
    DomCompared =>
        \A e \in NumericEntries :
            /\ e.significance = "major" =>
                  /\ e.previous > 0
                  /\ Abs(e.change) * 100 > 50 * e.previous
                  /\ Abs(e.change_percent) >= 500
            /\ e.significance = "moderate" =>
                  /\ e.previous > 0
                  /\ Abs(e.change) * 100 > 20 * e.previous
                  /\ Abs(e.change) * 100 <= 50 * e.previous
                  /\ Abs(e.change_percent) >= 200
                  /\ Abs(e.change_percent) <= 500

\* C8 witness: a major entry whose reported figure is exactly 50.0 and a
\* moderate entry in the same record
C8_Witness ==
    /\ DomCompared
    /\ \E e \in NumericEntries : e.significance = "major" /\ Abs(e.change_percent) = 500
    /\ \E e \in NumericEntries : e.significance = "moderate"

\* C9 as stated: every numeric entry of the diff has change = after - before
\* and change_percent = change / before * 100 exactly (0 when before = 0).
C9_Original ==
    DomCompared =>
        \A k \in NumericKeysCompared :
            k \in DOMAIN dom_changes.details =>
                LET e == dom_changes.details[k]
                IN  /\ e.change = _last_dom_stats[k] - dom_prev[k]
                    /\ IF dom_prev[k] = 0 THEN e.change_percent = 0
                       ELSE e.change_percent * dom_prev[k] = e.change * 1000

\* C9 amended: a numeric metric present in both snapshots gets an entry exactly
\* when its value differs; the entry has change = after - before and
\* change_percent = change / before * 100 rounded to one decimal place (within
\* 0.05 of the exact figure, and of its sign), and change_percent = 0 with
\* significance minor when before = 0.
C9_ChangeAndPercent ==
    DomCompared =>
        \A k \in NumericKeysCompared :
            IF _last_dom_stats[k] = dom_prev[k]
            THEN k \notin DOMAIN dom_changes.details
            ELSE /\ k \in DOMAIN dom_changes.details
                 /\ LET e == dom_changes.details[k]
                    IN  /\ e.previous = dom_prev[k]
                        /\ e.current = _last_dom_stats[k]
                        /\ e.change = _last_dom_stats[k] - dom_prev[k]
                        /\ IF dom_prev[k] = 0
                           THEN e.change_percent = 0 /\ e.significance = "minor"
                           ELSE /\ 2 * Abs(e.change_percent * dom_prev[k] - e.change * 1000)
                                      <= dom_prev[k]
                                /\ e.change_percent * e.change >= 0

\* C9 witness: one diff holding a metric that rose from 0 and a metric whose
\* exact percentage has more than one decimal
C9_Witness ==
    /\ DomCompared
    /\ \E k \in NumericKeysCompared :
          dom_prev[k] = 0 /\ _last_dom_stats[k] > 0 /\ k \in DOMAIN dom_changes.details
    /\ \E k \in NumericKeysCompared :
          /\ dom_prev[k] > 0
          /\ k \in DOMAIN dom_changes.details
          /\ dom_changes.details[k].change_percent * dom_prev[k]
                # dom_changes.details[k].change * 1000

\* C10: the record's significant_changes flag is true exactly when one of its
\* details entries is classified major; moderate and minor entries and
\* non-numeric (modified) entries never set it.
C10_SignificantIffMajor ==
    dom_calls >= 1 =>
        (dom_changes.significant_changes = TRUE
            <=> \E e \in NumericEntries : e.significance = "major")

\* C10 witness: the flag set by a major entry, in a record that also holds a
\* moderate entry and a modified hash
C10_Witness ==
    /\ DomCompared
    /\ dom_changes.significant_changes = TRUE
    /\ "body_hash" \in DOMAIN dom_changes.details
    /\ \E e \in NumericEntries : e.significance = "moderate"

\* the statistics only one of the two compared dicts holds
OneSidedKeys ==
    ((DOMAIN dom_prev) \ (DOMAIN _last_dom_stats))
        \cup ((DOMAIN _last_dom_stats) \ (DOMAIN dom_prev))

NonNumericKeysCompared ==
    {k \in (DOMAIN dom_prev) \cap (DOMAIN _last_dom_stats) : ~IsNumericStat(k)}

\* whether line is one of the lines of a summary
InSummary(line, summary) == \E i \in 1..Len(summary) : summary[i] = line

\* C12: a non-numeric statistic (the content hash) is compared for equality
\* only.  A differing value gives a details entry with exactly type, changed =
\* true, previous and current (no change, change_percent or significance) and
\* a '<field> modified' summary line; an equal value gives no entry and no
\* line.
C12_NonNumericEquality ==
    DomCompared =>
        \A k \in NonNumericKeysCompared :
            IF _last_dom_stats[k] = dom_prev[k]
            THEN /\ k \notin DOMAIN dom_changes.details
                 /\ ~InSummary(<<k, "modified">>, dom_changes.summary)
            ELSE /\ k \in DOMAIN dom_changes.details
                 /\ DOMAIN dom_changes.details[k] = {"type", "changed", "previous", "current"}
                 /\ dom_changes.details[k].changed = TRUE
                 /\ dom_changes.details[k].previous = dom_prev[k]
                 /\ dom_changes.details[k].current = _last_dom_stats[k]
                 /\ InSummary(<<k, "modified">>, dom_changes.summary)

\* C12 witness: a diff whose hash differs while no numeric statistic does
C12_Witness ==
    /\ DomCompared
    /\ "body_hash" \in NonNumericKeysCompared
    /\ _last_dom_stats.body_hash # dom_prev.body_hash
    /\ NumericEntries = {}
    /\ "body_hash" \in DOMAIN dom_changes.details

-----------------------------------------------------------------------------
(* Properties of the impact calculation, checked under SpecImpact *)

\* significant_changes as the claim's reader computes it from the impact
\* returned
SignificantPerImpact(im) ==
    \/ im.url_changed
    \/ Abs(im.elements_added) > 10
    \/ Abs(im.text_added) > 100
    \/ im.features_unlocked # << >>
    \/ im.content_increase_pct.num > 20 * im.content_increase_pct.den

\* content grew by more than 10%
GrewOverTen(im) == im.content_increase_pct.num > 10 * im.content_increase_pct.den

\* C14: the effectiveness of an impact is 'high' exactly when the change is
\* significant and at least one feature was unlocked, 'medium' exactly when
\* it is not high and the change is significant or the content grew by more
\* than 10%, and 'low' otherwise; it is always one of the three.
C14_EffectivenessRating ==
    pc = "assessed" =>
        LET high == SignificantPerImpact(result) /\ Len(result.features_unlocked) >= 1
            medium == ~high /\ (SignificantPerImpact(result) \/ GrewOverTen(result))
        IN  /\ result.effectiveness \in {"high", "medium", "low"}
            /\ result.effectiveness = "high" <=> high
            /\ result.effectiveness = "medium" <=> medium
            /\ result.effectiveness = "low" <=> (~high /\ ~medium)

\* C14 witness: an impact rated medium only because the content grew by more
\* than 10% (500 to 560 characters), nothing else being significant
C14_Witness ==
    /\ pc = "assessed"
    /\ result.effectiveness = "medium"
    /\ ~SignificantPerImpact(result)
    /\ GrewOverTen(result)

-----------------------------------------------------------------------------
(* Scenarios that span the diff engine and the impact assessment *)

\* the assessed tactics across which the page grew from 100 to 115 elements
ElementGrowthAt ==
    {k \in AssessedResults :
        /\ trace[k].page_before.element_count = 100
        /\ trace[k].page_after.element_count = 115}

-----------------------------------------------------------------------------
(* Properties of the checkpoints, checked under SpecCheckpoint *)

\* the calls that returned, in order: each recorded one checkpoint
ReturnedCalls == {k \in 1..Len(cp_trace) : ~cp_trace[k].raised}

\* the position in dom_snapshots of the checkpoint the returned call k recorded
SnapshotOf(k) == Cardinality({j \in ReturnedCalls : j <= k})

\* the selectors that have an entry in a new_elements list
SelectorsIn(new_elements) == {new_elements[i].selector : i \in 1..Len(new_elements)}

\* C18 (checkpoint ordering): the checkpoints are stored in creation order,
\* in the checkpoint list and in the timeline; of two checkpoints recorded in
\* sequence the earlier has the smaller or equal timestamp; and the first
\* checkpoint recorded has no new element.
C18_CheckpointOrdering ==
    /\ Len(dom_snapshots) = Cardinality(ReturnedCalls)
    /\ Len(metadata_timeline) = Len(dom_snapshots)
    /\ \A k \in ReturnedCalls :
          /\ dom_snapshots[SnapshotOf(k)].name = cp_trace[k].name
          /\ dom_snapshots[SnapshotOf(k)].timestamp = cp_trace[k].now
          /\ metadata_timeline[SnapshotOf(k)].checkpoint = cp_trace[k].name
          /\ metadata_timeline[SnapshotOf(k)].timestamp = cp_trace[k].now
    /\ \A i, j \in 1..Len(dom_snapshots) :
          i < j => dom_snapshots[i].timestamp <= dom_snapshots[j].timestamp
    /\ Len(dom_snapshots) >= 1 => dom_snapshots[1].new_elements = << >>

\* C18 witness: three checkpoints, the first taken of a page with controls,
\* the second at the same instant as the first, the third later and with new
\* elements
C18_Witness ==
    /\ Len(dom_snapshots) = 3
    /\ cp_trace[1].page = PageOpen
    /\ dom_snapshots[1].timestamp = dom_snapshots[2].timestamp
    /\ dom_snapshots[2].timestamp < dom_snapshots[3].timestamp
    /\ dom_snapshots[3].new_elements # << >>

\* C19: a screenshot that fails during a checkpoint (take_screenshot raises or
\* returns nothing) does not make _capture_checkpoint raise: the checkpoint is
\* appended to the checkpoint list and to the timeline, carries no screenshot
\* reference, and no entry for it is added to the report's screenshots.
C19_ScreenshotFailureTolerated ==
    \A k \in 1..Len(cp_trace) :
        cp_trace[k].shot # "saved" =>
            /\ k \in ReturnedCalls
            /\ SnapshotOf(k) <= Len(dom_snapshots)
            /\ dom_snapshots[SnapshotOf(k)].name = cp_trace[k].name
            /\ "screenshot" \notin DOMAIN dom_snapshots[SnapshotOf(k)]
            /\ metadata_timeline[SnapshotOf(k)].checkpoint = cp_trace[k].name
            /\ \A i \in 1..Len(screenshots) :
                  screenshots[i] # <<"checkpoint_", cp_trace[k].name>>

\* C19 witness: three checkpoints recorded, the screenshot of the second
\* having raised and the other two saved
C19_Witness ==
    /\ Len(cp_trace) = 3
    /\ cp_trace[2].shot = "raises"
    /\ Len(dom_snapshots) = 3
    /\ Len(screenshots) = 2
    /\ "screenshot" \in DOMAIN dom_snapshots[3]

\* C20 as stated: for every checkpoint after the first, the new elements are
\* relative to the immediately preceding checkpoint: a selector has entries
\* only if its count strictly increased since that checkpoint; the list holds
\* at most 20 entries; and the stored previous state is the current one after
\* each comparison.
C20_Original ==
    \A k \in ReturnedCalls :
        /\ Len(dom_snapshots[SnapshotOf(k)].new_elements) <= 20
        /\ \A j \in ReturnedCalls :
              (j < k /\ SnapshotOf(j) + 1 = SnapshotOf(k)) =>
                  \A sel \in SelectorsIn(dom_snapshots[SnapshotOf(k)].new_elements) :
                      ElementCountsOf(cp_trace[k].page)[sel]
                          > ElementCountsOf(cp_trace[j].page)[sel]
        /\ (k = Len(cp_trace) /\ cp_trace[k].scan_ok) =>
               _last_element_state = ElementStateOf(cp_trace[k].page)

\* the returned calls before k whose element scan succeeded
ScannedBefore(k) == {j \in ReturnedCalls : j < k /\ cp_trace[j].scan_ok}

\* the latest of a non-empty set of calls
Latest(calls) == CHOOSE j \in calls : \A i \in calls : i <= j

\* C20 amended: the new elements of a checkpoint whose scan succeeded are
\* relative to the most recent earlier checkpoint whose scan succeeded (none
\* are reported when there is no such checkpoint): a selector has entries
\* exactly when its count strictly increased since then, each entry carrying
\* that increase; the list holds at most 20 entries; the stored state is
\* replaced by the current one after each successful scan.  A checkpoint whose
\* scan failed reports no new element and leaves the stored state as it was.
C20_NewElementsSinceLastScan ==
    \A k \in ReturnedCalls :
        LET new_elements == dom_snapshots[SnapshotOf(k)].new_elements
            stored == IF k = Len(cp_trace) THEN _last_element_state
                      ELSE cp_trace[k + 1].last_scan
        IN  /\ Len(new_elements) <= 20
            /\ IF ~cp_trace[k].scan_ok
               THEN new_elements = << >> /\ stored = cp_trace[k].last_scan
               ELSE /\ stored = ElementStateOf(cp_trace[k].page)
                    /\ IF ScannedBefore(k) = {}
                       THEN new_elements = << >>
                       ELSE LET j == Latest(ScannedBefore(k))
                                was == ElementCountsOf(cp_trace[j].page)
                                is == ElementCountsOf(cp_trace[k].page)
                            IN  /\ SelectorsIn(new_elements)
                                      = {sel \in DOMAIN is : is[sel] > was[sel]}
                                /\ \A i \in 1..Len(new_elements) :
                                      /\ new_elements[i].change_type = "new"
                                      /\ new_elements[i].count_change
                                            = is[new_elements[i].selector]
                                              - was[new_elements[i].selector]

\* C20 witness: the scan of the second checkpoint failed, and the third
\* checkpoint reports elements that were already there at the second
C20_Witness ==
    /\ Len(cp_trace) = 3
    /\ ReturnedCalls = {1, 2, 3}
    /\ ~cp_trace[2].scan_ok
    /\ cp_trace[2].page = cp_trace[3].page
    /\ dom_snapshots[3].new_elements # << >>

-----------------------------------------------------------------------------
(* Properties of the aggregator, checked under SpecAnalyze *)

\* the positions of the results rated 'high'
HighRated == {i \in 1..Len(results) : HighImpactResult(results[i])}

\* the positions of the successful results rated 'high'
HighRatedSuccesses == {i \in HighRated : Get(results[i], "success", FALSE) = TRUE}

\* the first of a non-empty set of positions
Earliest(positions) == CHOOSE i \in positions : \A j \in positions : i <= j

\* C21 as stated: the most-effective tactic is the first tactic, in execution
\* order, whose impact rating is 'high', and none when no result is rated
\* 'high'.
C21_Original ==
    pc = "analyzed" =>
        result.most_effective =
            IF HighRated = {} THEN None ELSE results[Earliest(HighRated)].tactic

\* C21 amended: the most-effective tactic is the first successful tactic, in
\* execution order, whose impact rating is 'high', and none when no
\* successful result is rated 'high'.
C21_MostEffective ==
    pc = "analyzed" =>
        result.most_effective =
            IF HighRatedSuccesses = {} THEN None
            ELSE results[Earliest(HighRatedSuccesses)].tactic

\* C21 witness: a failed tactic rated 'high' comes first, two successful
\* tactics rated 'high' follow, and the second tactic is reported
C21_Witness ==
    /\ pc = "analyzed"
    /\ HighRated = {1, 2, 3}
    /\ HighRatedSuccesses = {2, 3}
    /\ result.most_effective = results[2].tactic

\* C22: the aggregation drops no result: total_tactics is the length of the
\* list, successful_tactics plus the number of failed_tactics is
\* total_tactics, each count being that of the results with and without a
\* true success, and success_rate is successful / total * 100, or 0 for the
\* empty list.
C22_NoResultDropped ==
    pc = "analyzed" =>
        /\ result.total_tactics = Len(results)
        /\ result.successful_tactics + Len(result.failed_tactics) = result.total_tactics
        /\ result.successful_tactics =
               Cardinality({i \in 1..Len(results) : Get(results[i], "success", FALSE) = TRUE})
        /\ IF Len(results) = 0
           THEN result.success_rate.num = 0
           ELSE result.success_rate.num * Len(results)
                    = result.successful_tactics * 100 * result.success_rate.den

\* C22 witness: a list of three results of which one succeeded, one failed
\* and one has no success entry
C22_Witness ==
    /\ pc = "analyzed"
    /\ Len(results) = 3
    /\ result.successful_tactics = 1
    /\ \E i \in 1..3 : "success" \notin DOMAIN results[i]
    /\ \E i \in 1..3 : "success" \in DOMAIN results[i] /\ results[i].success = FALSE

-----------------------------------------------------------------------------
(* Order and pacing of the liberation executor, checked under SpecExec *)

\* the levels of the liberation catalog
LiberationLevels == {liberation_sequence[i].level : i \in 1..Len(liberation_sequence)}

\* C23: the liberation catalog has exactly 6 phases, the levels 1 to 6,
\* listed in non-decreasing level order, and the result list has the names
\* and levels of the catalog in catalog order, one result per entry once the
\* executor returns, whichever probes fail.
C23_CatalogOrder ==
    /\ LiberationLevels = 1..6
    /\ \A i \in 1..(Len(liberation_sequence) - 1) :
          liberation_sequence[i].level <= liberation_sequence[i + 1].level
    /\ mode = "liberation" =>
          /\ \A i \in 1..Len(results) :
                /\ results[i].tactic = liberation_sequence[i].name
                /\ Get(results[i], "level", 0) = liberation_sequence[i].level
          /\ pc = "done" => Len(results) = Len(liberation_sequence)

\* C23 witness: a returned liberation run in which a probe raised and the
\* last result is of level 6
C23_Witness ==
    /\ mode = "liberation"
    /\ pc = "done"
    /\ RaisedAt # {}
    /\ results[Len(results)].level = 6

\* the pauses of level transitions taken so far
LevelPauses == {j \in 1..Len(sleeps) : sleeps[j].at = "level"}

\* whether tactic k of the liberation catalog is the first of its level
EntersLevel(k) ==
    k = 1 \/ liberation_sequence[k].level > liberation_sequence[k - 1].level

\* C24: the liberation executor pauses (1 s) for a level transition before
\* tactic k, and before any step of it, exactly when tactic k is the first
\* of its level; so it pauses once per level entered and never between two
\* tactics of the same level.
C24_LevelTransitionPacing ==
    mode = "liberation" =>
        /\ \A k \in 1..idx :
              EntersLevel(k) <=>
                  \E j \in LevelPauses :
                      /\ sleeps[j].before = k
                      /\ sleeps[j].level = liberation_sequence[k].level
                      /\ sleeps[j].tenths = 10
        /\ \A j \in LevelPauses : sleeps[j].before <= idx
        /\ \A i, j \in LevelPauses : sleeps[i].level = sleeps[j].level => i = j
        /\ levels_executed = {liberation_sequence[k].level : k \in 1..idx}
        /\ pc = "done" => Cardinality(LevelPauses) = 6

\* C24 witness: the run is in level 2, having paused before tactic 6, the
\* first of level 2, and not before tactic 7, the second
C24_Witness ==
    /\ mode = "liberation"
    /\ idx = 7
    /\ pc = "execute"
    /\ \E j \in LevelPauses : sleeps[j].before = 6 /\ sleeps[j].level = 2
    /\ ~ \E j \in LevelPauses : sleeps[j].before = 7

\* the pacing pause the specification gives a level, in tenths of a second
PacingTenths(level) ==
    IF level \in {1, 2} THEN 5 ELSE IF level \in {3, 4} THEN 10 ELSE 20

\* the pacing pauses taken between tactic k and tactic k + 1
PacingPausesAfter(k) ==
    {j \in 1..Len(sleeps) : sleeps[j].at = "tactic" /\ sleeps[j].before = k + 1}

\* C25 as stated: between every two consecutive tactics of a liberation run
\* the executor takes a pacing pause of 0.5 s after a tactic of level 1-2,
\* 1 s after level 3-4 and 2 s after level 5-6, whether the finished tactic
\* succeeded, returned failure or raised.
C25_Original ==
    mode = "liberation" =>
        \A k \in 1..(idx - 1) :
            \E j \in PacingPausesAfter(k) :
                sleeps[j].tenths = PacingTenths(liberation_sequence[k].level)

-----------------------------------------------------------------------------
(* The sub-cycle of a tactic and termination, checked under SpecExec *)

\* what a step of the liberation executor does, by the point it leaves
SubCycleStep ==
    mode = "liberation" =>
        /\ pc = "loop" /\ pc' = "before" =>
              idx' = idx + 1 /\ Len(results) = idx /\ results' = results
        /\ pc = "loop" /\ pc' # "before" =>
              pc' = "summary" /\ Len(results) = Len(liberation_sequence)
        /\ pc = "before" =>
              /\ pc' = "execute"
              /\ trace[idx].probe = "not_run"
              /\ results' = results /\ idx' = idx
        /\ pc = "execute" =>
              /\ pc' \in {"after", "except"}
              /\ trace'[idx].probe # "not_run"
              /\ pc' = "after" <=> ~ProbeRaises(trace'[idx].probe)
              /\ results' = results /\ idx' = idx
        /\ pc = "after" =>
              /\ pc' = "record"
              /\ results' = results /\ idx' = idx
        /\ pc = "record" =>
              /\ pc' \in {"loop", "except"}
              /\ idx' = idx
              /\ IF pc' = "loop"
                 THEN /\ Len(results') = Len(results) + 1
                      /\ results'[idx].impact = _calculate_impact(before_state, after_state)
                 ELSE results' = results
        /\ pc = "except" =>
              pc' = "loop" /\ idx' = idx /\ Len(results') = Len(results) + 1
        /\ pc = "summary" => pc' = "done" /\ results' = results
        /\ pc = "done" => pc' = "done" /\ results' = results

\* the tactic in its sub-cycle, if any, is the only one without a result
OneTacticAtATime ==
    mode = "liberation" =>
        /\ pc \in {"before", "execute", "after", "record", "except"} =>
              Len(results) = idx - 1
        /\ pc \in {"loop", "summary", "done"} => Len(results) = idx
        /\ \A k \in 1..Len(results) : results[k].tactic = liberation_sequence[k].name
        /\ pc \in {"summary", "done"} => Len(results) = Len(liberation_sequence)

\* how far a liberation run has come: seven points per tactic, then the
\* summary and the return
Progress ==
    7 * idx + (CASE pc = "before" -> 1
                 [] pc = "execute" -> 2
                 [] pc = "after" -> 3
                 [] pc = "record" -> 4
                 [] pc = "except" -> 5
                 [] pc = "loop" -> 6
                 [] pc = "summary" -> 7
                 [] OTHER -> 8)

\* until it has returned, the executor has a next step, and each step
\* brings it nearer to the return
Terminates ==
    /\ [][mode = "liberation" /\ pc # "done" => Progress' > Progress]_vars
    /\ [](mode = "liberation" =>
            /\ Progress <= 7 * Len(liberation_sequence) + 8
            /\ pc = "done" \/ ENABLED NextExec)

\* C26: each tactic of a liberation run goes through before-capture, probe,
\* after-capture, assessment and append in this order (a raising step goes
\* to the append of the failure), tactic k + 1 starts only when the result
\* of tactic k is appended, the executor returns only when every catalog
\* entry has a result, and it does return: it never stops before, and no
\* run goes on for ever without returning.
C26_SubCycle ==
    /\ [][SubCycleStep]_vars
    /\ []OneTacticAtATime
    /\ Terminates

\* C26 witness: a returned liberation run in which one probe raised and the
\* others returned, with a result for each of the 19 tactics
C26_Witness ==
    /\ mode = "liberation"
    /\ pc = "done"
    /\ \E k \in 1..Len(trace) : trace[k].probe = "raise_nomsg"
    /\ \E k \in 1..Len(trace) : ~ProbeRaises(trace[k].probe)
    /\ Len(results) = 19

-----------------------------------------------------------------------------
(* Properties of scout_site on one engine, checked under SpecScout *)

\* the checkpoint calls of the scout_site call in progress
CheckpointsOfRun == {k \in 1..Len(cp_trace) : cp_trace[k].run = Run}

\* C27 as stated: each scout_site run starts from a clean baseline, its first
\* checkpoint reporting 'Initial DOM capture' and no new elements, and the
\* captured data of the run holds only the checkpoints of that run, also
\* when the engine is used for a second target after a first.
C27_Original ==
    pc = "tactics" =>
        LET first == dom_snapshots[Len(dom_snapshots)]
            call == cp_trace[Len(cp_trace)]
        IN  /\ call.dom_ok => first.dom_changes.summary = << <<"Initial DOM capture">> >>
            /\ first.new_elements = << >>
            /\ Len(dom_snapshots) = Cardinality(CheckpointsOfRun)
            /\ Len(result.captured_data.dom_snapshots) <= Cardinality(CheckpointsOfRun)

\* the checkpoints scout_site is to record, in order
ExpectedCheckpoints(current_task) ==
    IF current_task
    THEN CheckpointNames
    ELSE SelectSeq(CheckpointNames, LAMBDA n : n # "after_task_exploration")

\* C30 as stated: a scout_site call whose navigation fails returns None and
\* has run no tactic and recorded no checkpoint; one whose navigation
\* succeeds runs the tactics with the report, records the checkpoints
\* after_phase1, after_liberation, after_analysis, after_task_exploration
\* (if a task is set) and final_state in this order, and returns the report;
\* only a failing driver read may end it otherwise.
C30_Original ==
    \A r \in 1..Len(trace) :
        /\ ~trace[r].navigated =>
              /\ trace[r].outcome = "returned"
              /\ trace[r].checkpoints = << >>
              /\ ~trace[r].tactics_run
              /\ r = Run => result = None
        /\ trace[r].navigated /\ trace[r].outcome = "raised" /\ r = Run =>
              exc.type \in {"WebDriverException", "InvalidSessionIdException"}
        /\ trace[r].navigated /\ trace[r].outcome = "returned" =>
              /\ trace[r].tactics_run
              /\ trace[r].checkpoints = ExpectedCheckpoints(trace[r].current_task)

-----------------------------------------------------------------------------
(* What the liberation executor records of a probe that returned, checked    *)
(* under SpecExec                                                            *)

\* C29 as stated: in a liberation run every tactic whose probe returned is
\* recorded with the success flag the probe returned and with an impact
\* assessment; a probe that returned success = true is never recorded as a
\* failure.
C29_Original ==
    mode = "liberation" =>
        \A k \in 1..Len(results) :
            ~ProbeRaises(trace[k].probe) =>
                /\ results[k].success = Get(ProbeReturn(trace[k].probe), "success", FALSE)
                /\ "impact" \in DOMAIN results[k]

=============================================================================
